---- MODULE Spec2Model ----
(***************************************************************************)
(* Model of the trsecho media-monitoring pipeline (rawkar/trsecho):        *)
(* RelevanceScorer, should_include and categorize_articles                 *)
(* (src/src/categorizer.py), deduplicate_articles (src/src/deduplicator.py)*)
(* enrich_articles (src/src/enricher.py) and the processing part of main   *)
(* (src/main.py).                                                          *)
(*                                                                         *)
(* Python strings are modelled as sequences of one-character strings, so   *)
(* that `term in text`, str.lower(), slicing and difflib's SequenceMatcher *)
(* are computed on characters as the code computes them.                   *)
(* Scores are kept in thousandths (0.3 -> 300); trust modifiers in tenths  *)
(* (2.0 -> 20).  Every value the scorer can produce is a multiple of       *)
(* 0.005, and on those values the float comparisons of the code agree with *)
(* the integer comparisons used here.                                      *)
(* Timestamps are whole days; a published_date is [day, aware], aware =    *)
(* FALSE for a datetime without tzinfo.                                    *)
(***************************************************************************)
EXTENDS Integers, Sequences, FiniteSets, TLC

VARIABLES
    scored,            \* last return value of calculate_relevance, with its argument
    articles,          \* main(): the list `articles`
    stage,             \* main(): position in the processing part of the run
    dedup_in,          \* argument of the last deduplicate_articles call
    dedup_runs,        \* number of deduplicate_articles calls made (capped)
    categorized_data,  \* return value of categorize_articles
    config,            \* the loaded configuration (config['app'])
    scrape,            \* scrape_web(): futures, scrape threads and the main thread
    feeds,             \* what feedparser returns for the feeds and queries of the run
    site               \* scrape_site(): the link loop over one site's page

vars == <<scored, articles, stage, dedup_in, dedup_runs, categorized_data, config, scrape, feeds, site>>

(***************************************************************************)
(* Strings                                                                 *)
(***************************************************************************)
Min(a, b) == IF a < b THEN a ELSE b

Max(a, b) == IF a > b THEN a ELSE b

\* Python `term in text` for strings
Contains(text, term) ==
    \E i \in 1..(Len(text) - Len(term) + 1) :
        /\ (Len(term) > 0 => text[i] = term[1])
        /\ SubSeq(text, i, i + Len(term) - 1) = term

\* upper-case letters of the model alphabet and their lower-case forms
UpperCase == <<"A","B","C","D","E","F","G","H","I","J","K","L","M","N","O","P","Q","R","S","T","U","V","W","X","Y","Z","Å","Ä","Ö","É">>

LowerCase == <<"a","b","c","d","e","f","g","h","i","j","k","l","m","n","o","p","q","r","s","t","u","v","w","x","y","z","å","ä","ö","é">>

LowerChar(c) ==
    IF \E k \in 1..Len(UpperCase) : UpperCase[k] = c
    THEN LowerCase[CHOOSE k \in 1..Len(UpperCase) : UpperCase[k] = c]
    ELSE c

\* str.lower()
Lower(s) == [i \in 1..Len(s) |-> LowerChar(s[i])]

\* s[:n]
Prefix(s, n) == SubSeq(s, 1, Min(n, Len(s)))

\* any(term in text for term in terms)
AnyIn(terms, text) == \E k \in 1..Len(terms) : Contains(text, terms[k])

\* [t for t in terms if t in text]
MatchesIn(terms, text) == SelectSeq(terms, LAMBDA t : Contains(text, t))

SP == <<" ">>

(***************************************************************************)
(* Keyword and domain tables of src/src/categorizer.py                     *)
(***************************************************************************)
\* HIGH_TRUST_DOMAINS (categorizer.py:9-15)
HIGH_TRUST_DOMAINS ==
    << <<"p","t","k",".","s","e">>,
       <<"s","v","e","n","s","k","s","c","e","n","k","o","n","s","t",".","s","e">>,
       <<"a","r","b","e","t","s","g","i","v","a","r","a","l","l","i","a","n","s","e","n",".","s","e">>,
       <<"t","e","a","t","e","r","a","l","l","i","a","n","s","e","n",".","s","e">>,
       <<"d","a","n","s","a","l","l","i","a","n","s","e","n",".","s","e">>,
       <<"m","u","s","i","k","a","l","l","i","a","n","s","e","n",".","s","e">>, <<"t","r","r",".","s","e">>,
       <<"o","m","s","t","e","l","l","a",".","s","e">>,
       <<"k","u","l","t","u","r","r","a","d","e","t",".","s","e">>,
       <<"k","o","n","s","t","n","a","r","s","n","a","m","n","d","e","n",".","s","e">>,
       <<"f","r","e","m","i","a",".","s","e">>, <<"s","c","e","n","s","v","e","r","i","g","e",".","s","e">>,
       <<"m","u","s","i","k","e","r","f","o","r","b","u","n","d","e","t",".","s","e">>,
       <<"n","o","d","s","v","e","r","i","g","e",".","s","e">>, <<"n","y","s","t","a",".","n","u">>,
       <<"f","a","m","n","a",".","s","e">>, <<"f","a","m","n","a",".","o","r","g">>,
       <<"t","r","s",".","s","e">> >>

\* MEDIUM_TRUST_DOMAINS (categorizer.py:17-19)
MEDIUM_TRUST_DOMAINS ==
    << <<"m","u","s","i","k","e","r","f","o","r","b","u","n","d","e","t",".","s","e">>,
       <<"s","c","e","n","o","c","h","f","i","l","m",".","s","e">>,
       <<"r","e","g","e","r","i","n","g","e","n",".","s","e">> >>

\* LOW_TRUST_DOMAINS (categorizer.py:21-24)
LOW_TRUST_DOMAINS ==
    << <<"t","n",".","s","e">>, <<"a","r","b","e","t","e","t",".","s","e">>,
       <<"k","o","l","l","e","g","a",".","s","e">>,
       <<"d","a","g","e","n","s","s","a","m","h","a","l","l","e",".","s","e">>,
       <<"p","u","b","l","i","k","t",".","s","e">>,
       <<"s","v","e","n","s","k","t","n","a","r","i","n","g","s","l","i","v",".","s","e">> >>

\* TRS_SECTORS (categorizer.py:36-53)
TRS_SECTORS ==
    << <<"t","e","a","t","e","r">>, <<"o","r","k","e","s","t","e","r">>, <<"o","p","e","r","a">>,
       <<"b","a","l","e","t","t">>, <<"d","a","n","s">>, <<"m","u","s","i","k">>,
       <<"s","c","e","n","k","o","n","s","t">>, <<"k","o","n","s","e","r","t","h","u","s">>,
       <<"d","r","a","m","a","t","i","s","k">>, <<"s","c","e","n">>,
       <<"f","ö","r","e","s","t","ä","l","l","n","i","n","g">>, <<"r","e","p","e","r","t","o","a","r">>,
       <<"s","y","m","f","o","n","i">>, <<"k","ö","r">>, <<"d","i","r","i","g","e","n","t">>,
       <<"m","u","s","i","k","e","r">>, <<"s","k","å","d","e","s","p","e","l","a","r","e">>,
       <<"d","a","n","s","a","r","e">>, <<"i","d","e","e","l","l">>, <<"i","d","é","b","u","r","e","n">>,
       <<"c","i","v","i","l","s","a","m","h","ä","l","l","e">>,
       <<"f","o","l","k","r","ö","r","e","l","s","e">>, <<"f","ö","r","e","n","i","n","g">>,
       <<"s","t","i","f","t","e","l","s","e">>, <<"f","o","l","k","h","ö","g","s","k","o","l","a">>,
       <<"t","r","o","s","s","a","m","f","u","n","d">>, <<"k","y","r","k","a">>,
       <<"i","d","r","o","t","t">>,
       <<"r","i","k","s","i","d","r","o","t","t","s","f","ö","r","b","u","n","d">>,
       <<"k","u","l","t","u","r">>, <<"k","o","n","s","t","n","ä","r">>,
       <<"k","o","n","s","t","n","ä","r","l","i","g">>,
       <<"k","u","l","t","u","r","a","r","b","e","t","a","r","e">>,
       <<"k","u","l","t","u","r","s","e","k","t","o","r">>,
       <<"t","e","a","t","e","r","a","l","l","i","a","n","s","e","n">>,
       <<"d","a","n","s","a","l","l","i","a","n","s","e","n">>,
       <<"m","u","s","i","k","a","l","l","i","a","n","s","e","n">>,
       <<"a","r","b","e","t","s","g","i","v","a","r","a","l","l","i","a","n","s","e","n">>,
       <<"s","v","e","n","s","k"," ","s","c","e","n","k","o","n","s","t">>, <<"p","t","k">>,
       <<"f","r","e","m","i","a">> >>

\* NON_TRS_SECTORS (categorizer.py:56-83)
NON_TRS_SECTORS ==
    << <<"f","a","b","r","i","k">>, <<"t","i","l","l","v","e","r","k","n","i","n","g">>,
       <<"i","n","d","u","s","t","r","i">>, <<"p","r","o","d","u","k","t","i","o","n">>,
       <<"v","e","r","k","s","t","a","d">>, <<"l","i","v","s","m","e","d","e","l">>,
       <<"s","l","a","k","t","e","r","i">>, <<"k","y","c","k","l","i","n","g","f","a","b","r","i","k">>,
       <<"s","t","å","l">>, <<"p","a","p","p","e","r">>, <<"t","å","g">>,
       <<"l","o","k","f","ö","r","a","r","e">>, <<"s","j"," ">>, <<"p","e","n","d","e","l","t","å","g">>,
       <<"t","u","n","n","e","l","b","a","n","a">>, <<"b","u","s","s">>, <<"l","a","s","t","b","i","l">>,
       <<"c","h","a","u","f","f","ö","r">>, <<"t","r","a","n","s","p","o","r","t">>,
       <<"l","o","g","i","s","t","i","k">>, <<"f","l","y","g">>, <<"b","u","t","i","k">>,
       <<"d","e","t","a","l","j","h","a","n","d","e","l">>, <<"h","a","n","d","e","l">>,
       <<"r","e","s","t","a","u","r","a","n","g">>, <<"h","o","t","e","l","l">>,
       <<"b","e","s","ö","k","s","n","ä","r","i","n","g">>, <<"k","r","o","g">>,
       <<"k","o","m","m","u","n">>, <<"r","e","g","i","o","n">>, <<"l","a","n","d","s","t","i","n","g">>,
       <<"m","y","n","d","i","g","h","e","t">>, <<"s","t","a","t","l","i","g">>,
       <<"g","r","u","n","d","s","k","o","l","a">>, <<"g","y","m","n","a","s","i","u","m">>,
       <<"f","r","i","s","k","o","l","a">>, <<"l","ä","r","a","r","e">>, <<"s","j","u","k","h","u","s">>,
       <<"v","å","r","d","c","e","n","t","r","a","l">>, <<"r","e","g","i","o","n","v","å","r","d">>,
       <<"l","ä","k","a","r","e">>, <<"s","j","u","k","s","k","ö","t","e","r","s","k","a">>,
       <<"l","s","s","-","b","o","e","n","d","e">>, <<"ä","l","d","r","e","b","o","e","n","d","e">>,
       <<"b","y","g","g","e">>, <<"b","y","g","g","a","r","b","e","t","s","p","l","a","t","s">>,
       <<"e","n","t","r","e","p","r","e","n","a","d">>, <<"a","n","l","ä","g","g","n","i","n","g">>,
       <<"i","a","s","p","i","s">>, <<"b","i","l","d"," ","o","c","h"," ","f","o","r","m">>,
       <<"b","i","l","d","k","o","n","s","t">>, <<"f","o","r","m","k","o","n","s","t">>,
       <<"k","o","n","s","t","h","a","n","t","v","e","r","k">>,
       <<"u","t","s","t","ä","l","l","n","i","n","g">> >>

\* NON_SWEDISH_INDICATORS (categorizer.py:85-89)
NON_SWEDISH_INDICATORS ==
    << <<"b","u","l","g","a","r","i","e","n">>, <<"g","r","e","k","l","a","n","d">>,
       <<"g","r","e","k","i","s","k","a">>, <<"d","a","n","m","a","r","k">>, <<"n","o","r","g","e">>,
       <<"f","i","n","l","a","n","d">>, <<"t","y","s","k","l","a","n","d">>,
       <<"f","r","a","n","k","r","i","k","e">>, <<"i","t","a","l","i","e","n">>,
       <<"s","p","a","n","i","e","n">>, <<"p","o","l","e","n">>, <<"e","u","-","b","u","d","g","e","t">>,
       <<"e","u","r","o","p","e","i","s","k","a"," ","k","o","m","m","i","s","s","i","o","n","e","n">>,
       <<"b","r","y","s","s","e","l">>, <<"u","s","a">>, <<"k","i","n","d","a">>, <<"j","a","p","a","n">> >>

\* WORK_ANGLE_REQUIRED_SOURCES (categorizer.py:91-94)
WORK_ANGLE_REQUIRED_SOURCES ==
    << <<"s","v","e","r","i","g","e","s","r","a","d","i","o",".","s","e">>, <<"t","v","4",".","s","e">>,
       <<"s","v","t",".","s","e">>, <<"d","n",".","s","e">>, <<"s","v","d",".","s","e">>,
       <<"e","x","p","r","e","s","s","e","n",".","s","e">>,
       <<"a","f","t","o","n","b","l","a","d","e","t",".","s","e">> >>

\* TRS_CORE_TOPICS (categorizer.py:97-106)
TRS_CORE_TOPICS ==
    << <<"o","m","s","t","ä","l","l","n","i","n","g">>,
       <<"o","m","s","t","ä","l","l","n","i","n","g","s","s","t","ö","d">>,
       <<"o","m","s","t","ä","l","l","n","i","n","g","s","a","v","t","a","l">>,
       <<"u","p","p","s","ä","g","n","i","n","g">>, <<"a","r","b","e","t","s","b","r","i","s","t">>,
       <<"v","a","r","s","e","l">>, <<"n","e","d","s","k","ä","r","n","i","n","g">>,
       <<"k","a","r","r","i","ä","r","v","ä","x","l","i","n","g">>,
       <<"k","a","r","r","i","ä","r","o","m","s","t","ä","l","l","n","i","n","g">>,
       <<"k","o","m","p","e","t","e","n","s","u","t","v","e","c","k","l","i","n","g">>,
       <<"k","o","m","p","e","t","e","n","s","s","t","ö","d">>,
       <<"o","m","s","t","ä","l","l","n","i","n","g","s","s","t","u","d","i","e","s","t","ö","d">>,
       <<"t","r","y","g","g","h","e","t","s","r","å","d">>,
       <<"k","o","l","l","e","k","t","i","v","a","v","t","a","l">>,
       <<"p","a","r","t","s","s","a","m","v","e","r","k","a","n">>, <<"f","r","i","l","a","n","s">>,
       <<"t","i","d","s","b","e","g","r","ä","n","s","a","d"," ","a","n","s","t","ä","l","l","n","i","n","g">>,
       <<"a","n","s","t","ä","l","l","n","i","n","g">>,
       <<"a","r","b","e","t","s","m","a","r","k","n","a","d">>,
       <<"a","r","b","e","t","s","m","i","l","j","ö">>, <<"l","ö","n">> >>

\* WORK_ANGLE_KEYWORDS (categorizer.py:108-113)
WORK_ANGLE_KEYWORDS ==
    << <<"a","n","s","t","ä","l","l">>, <<"u","p","p","s","ä","g">>, <<"v","a","r","s","e","l">>,
       <<"n","e","d","s","k","ä","r","n","i","n","g">>, <<"s","p","a","r","k","r","a","v">>,
       <<"o","m","s","t","ä","l","l">>, <<"k","o","l","l","e","k","t","i","v","a","v","t","a","l">>,
       <<"f","r","i","l","a","n","s">>, <<"l","ö","n","e">>, <<"p","e","r","s","o","n","a","l">>,
       <<"j","o","b","b">>, <<"r","e","k","r","y","t","e","r">>, <<"a","v","s","k","e","d">>,
       <<"p","e","n","s","i","o","n">>, <<"b","u","d","g","e","t">>,
       <<"a","r","b","e","t","s","m","i","l","j","ö">>, <<"f","a","c","k">>,
       <<"t","r","y","g","g","h","e","t">>, <<"v","i","l","l","k","o","r">> >>

\* REVIEW_INDICATORS (categorizer.py:115-138)
REVIEW_INDICATORS ==
    << <<"r","e","c","e","n","s","i","o","n">>, <<"r","e","c","e","n","s","e","r","a","r">>,
       <<"b","e","t","y","g">>, <<"s","t","j","ä","r","n","o","r">>, <<"p","r","e","m","i","ä","r">>,
       <<"u","r","p","r","e","m","i","ä","r">>, <<"n","y","p","r","e","m","i","ä","r">>,
       <<"f","ö","r","e","s","t","ä","l","l","n","i","n","g">>, <<"p","j","ä","s">>,
       <<"u","p","p","s","ä","t","t","n","i","n","g">>, <<"r","e","g","i","g","r","e","p","p">>,
       <<"r","o","l","l","p","r","e","s","t","a","t","i","o","n">>,
       <<"s","c","e","n","o","g","r","a","f","i">>, <<"m","a","n","u","s">>,
       <<"k","o","n","s","e","r","t">>, <<"s","p","e","l","n","i","n","g">>, <<"t","u","r","n","é">>,
       <<"a","l","b","u","m">>, <<"s","k","i","v","a">>, <<"l","å","t">>,
       <<"g","r","i","p","a","n","d","e">>, <<"m","ä","k","t","i","g">>, <<"r","ö","r","a","n","d","e">>,
       <<"u","n","d","e","r","h","å","l","l","a","n","d","e">>,
       <<"p","u","b","l","i","k","s","u","c","c","é">>, <<"s","u","c","c","é">>,
       <<"s","e","v","ä","r","d">>, <<"m","a","g","i","s","k">>,
       <<"b","e","r","ä","t","t","a","r"," ","o","m">>, <<"l","i","v","s","h","i","s","t","o","r","i","a">>,
       <<"k","a","r","r","i","ä","r">>, <<"s","k","å","d","e","s","p","e","l","a","r","e","n">>,
       <<"a","r","t","i","s","t","e","n">>, <<"m","u","s","i","k","e","r","n">>,
       <<"i","n","t","e","r","v","j","u"," ","m","e","d">>, <<"å","r","e","t","s"," ","b","ä","s","t","a">>,
       <<"å","r","e","t","s"," ","t","e","a","t","e","r">>, <<"t","e","a","t","e","r","å","r","e","t">>,
       <<"m","u","s","i","k","å","r","e","t">>, <<"j","u","b","i","l","e","u","m">>,
       <<"f","i","r","a","n","d","e">>, <<"h","y","l","l","n","i","n","g">> >>

\* PERFORMANCE_TERMS (categorizer.py:212-215)
PERFORMANCE_TERMS ==
    << <<"f","ö","r","e","s","t","ä","l","l","n","i","n","g">>, <<"p","j","ä","s">>,
       <<"u","p","p","s","ä","t","t","n","i","n","g">>, <<"k","o","n","s","e","r","t">>,
       <<"s","p","e","l","n","i","n","g">>, <<"t","u","r","n","é">>, <<"p","r","e","m","i","ä","r">>,
       <<"r","e","p","e","r","t","o","a","r">> >>

\* SCENKONST_TERMS (categorizer.py:222-225)
SCENKONST_TERMS ==
    << <<"t","e","a","t","e","r">>, <<"o","p","e","r","a">>, <<"b","a","l","e","t","t">>,
       <<"o","r","k","e","s","t","e","r">>, <<"d","a","n","s">>, <<"m","u","s","i","k">>,
       <<"k","o","n","s","e","r","t">>, <<"s","c","e","n">>, <<"d","r","a","m","a","t","i","k">> >>

\* work_keywords (categorizer.py:254-255)
work_keywords ==
    << <<"a","n","s","t","ä","l","l">>, <<"a","r","b","e","t","s">>, <<"o","m","s","t","ä","l","l">>,
       <<"k","o","l","l","e","k","t","i","v","a","v","t","a","l">>, <<"f","r","i","l","a","n","s">>,
       <<"u","p","p","s","ä","g">>, <<"v","a","r","s","e","l">>, <<"l","ö","n","e">>, <<"f","a","c","k">>,
       <<"t","r","y","g","g","h","e","t">> >>

SVERIGE == <<"s","v","e","r","i","g","e">>

SVENSK == <<"s","v","e","n","s","k">>

BodyScoreLimit == 500

(***************************************************************************)
(* Article record (src/src/models.py)                                      *)
(***************************************************************************)
\* None for the optional string fields; the code only tests them for truth,
\* where None and "" behave alike
None == <<>>

NoCategory == "None"

Aware(d) == [day |-> d, aware |-> TRUE]

Naive(d) == [day |-> d, aware |-> FALSE]

Article(title, url, source, published_date, summary) ==
    [ title |-> title, url |-> url, source |-> source,
      published_date |-> published_date, summary |-> summary,
      content_type |-> "article", category |-> NoCategory,
      relevance_score |-> 0, body_text |-> <<>>, organization |-> None,
      domain |-> None, estimated_read_time |-> 0, found_via |-> None ]

(***************************************************************************)
(* RelevanceScorer (src/src/categorizer.py)                                *)
(***************************************************************************)
check_geographic_relevance(text) ==
    IF AnyIn(NON_SWEDISH_INDICATORS, text)
    THEN Contains(text, SVERIGE) \/ Contains(text, SVENSK)
    ELSE TRUE

\* check_work_angle reading the class-level list instead of its local work_keywords
check_work_angle_class_keywords(source, text) ==
    LET is_general_source == \E k \in 1..Len(WORK_ANGLE_REQUIRED_SOURCES) :
                                 Contains(source, WORK_ANGLE_REQUIRED_SOURCES[k])
    IN  IF ~is_general_source THEN TRUE
        ELSE AnyIn(WORK_ANGLE_KEYWORDS, text)

check_work_angle(source, text) ==
    LET is_general_source == \E k \in 1..Len(WORK_ANGLE_REQUIRED_SOURCES) :
                                 Contains(source, WORK_ANGLE_REQUIRED_SOURCES[k])
    IN  IF ~is_general_source THEN TRUE
        ELSE AnyIn(work_keywords, text)

get_source_modifier(domain) ==
    IF \E k \in 1..Len(HIGH_TRUST_DOMAINS) : Contains(domain, HIGH_TRUST_DOMAINS[k]) THEN 20
    ELSE IF \E k \in 1..Len(MEDIUM_TRUST_DOMAINS) : Contains(domain, MEDIUM_TRUST_DOMAINS[k]) THEN 15
    ELSE IF \E k \in 1..Len(LOW_TRUST_DOMAINS) : Contains(domain, LOW_TRUST_DOMAINS[k]) THEN 7
    ELSE 10

\* A reason is a sequence of fragments <<label, terms>>: the label is the fixed
\* part of the text the code formats, terms the keywords it interpolates.
Frag(label, terms) == <<label, terms>>

\* returns <<is_review, reason>>
is_review_or_entertainment(text) ==
    LET text_lower == Lower(text)
        perf == MatchesIn(PERFORMANCE_TERMS, text_lower)
        has_scenkonst == AnyIn(SCENKONST_TERMS, text_lower)
        ind == MatchesIn(REVIEW_INDICATORS, text_lower)
    IN  IF AnyIn(WORK_ANGLE_KEYWORDS, text_lower) THEN <<FALSE, <<>>>>
        ELSE IF perf # <<>> THEN <<TRUE, Frag("Recension/kulturartikel: ", <<perf[1]>>)>>
        ELSE IF has_scenkonst /\ ind # <<>> THEN <<TRUE, Frag("Recension/kulturartikel: ", <<ind[1]>>)>>
        ELSE <<FALSE, <<>>>>

\* check_sector_relevance without the negative result of categorizer.py:287-292
check_sector_relevance_positive_only(text) ==
    LET matches == MatchesIn(TRS_SECTORS, text)
    IN  IF matches # <<>>
        THEN <<300 * Min(Len(matches), 3), Frag("Sektor: ", Prefix(matches, 3))>>
        ELSE <<0, <<>>>>

\* check_sector_relevance without the cap of categorizer.py:298 on the matches
check_sector_relevance_uncapped(text) ==
    LET neg == MatchesIn(NON_TRS_SECTORS, text)
        matches == MatchesIn(TRS_SECTORS, text)
    IN  IF neg # <<>> /\ ~AnyIn(TRS_SECTORS, text) THEN <<-1000, neg[1]>>
        ELSE IF matches # <<>>
             THEN <<300 * Len(matches), Frag("Sektor: ", Prefix(matches, 3))>>
        ELSE <<0, <<>>>>

\* returns <<score, reason>>; score -1000 is the code's -1.0
check_sector_relevance(text) ==
    LET neg == MatchesIn(NON_TRS_SECTORS, text)
        matches == MatchesIn(TRS_SECTORS, text)
    IN  IF neg # <<>> /\ ~AnyIn(TRS_SECTORS, text) THEN <<-1000, neg[1]>>
        ELSE IF matches # <<>>
             THEN <<300 * Min(Len(matches), 3), Frag("Sektor: ", Prefix(matches, 3))>>
        ELSE <<0, <<>>>>

check_topic_relevance(text) ==
    LET matches == MatchesIn(TRS_CORE_TOPICS, text)
    IN  IF matches # <<>>
        THEN <<400 * Min(Len(matches), 3), Frag("Ämne: ", Prefix(matches, 3))>>
        ELSE <<0, <<>>>>

\* the text calculate_relevance scores (categorizer.py:149)
ScoredText(article) ==
    Lower(article.title \o SP \o article.summary \o SP
          \o Prefix(article.body_text, BodyScoreLimit))

\* the source calculate_relevance uses (categorizer.py:150)
ScoredSource(article) ==
    IF article.domain # <<>> THEN Lower(article.domain)
    ELSE IF article.source # <<>> THEN Lower(article.source)
    ELSE <<>>

GEO_REASON == <<Frag("Irrelevant geografi (utlandet)", <<>>)>>

WORK_ANGLE_REASON == <<Frag("Saknar arbetsmarknadsvinkel (generell källa)", <<>>)>>

\* categorizer.py:191-192 without the floor
trust_floor_missing(score, source_modifier) == score

\* STEG 4 (categorizer.py:191-192): the running score after the trust floor
trust_floor(score, source_modifier) ==
    IF source_modifier > 15 /\ score < 100 THEN 100 ELSE score

\* categorizer.py:169 with the gate applied to every source
review_gate_always(source_modifier) == TRUE

\* STEG 1.6 (categorizer.py:169): is the review gate applied to this source
review_gate_applies(source_modifier) == source_modifier < 20

\* returns [score, reason]
calculate_relevance(article) ==
    LET text == ScoredText(article)
        source == ScoredSource(article)
        source_modifier == get_source_modifier(source)
        review == is_review_or_entertainment(text)
        sector == check_sector_relevance(text)
        topic == check_topic_relevance(text)
        score == sector[1] + topic[1]
        reasons == (IF sector[2] # <<>> THEN <<sector[2]>> ELSE <<>>)
                   \o (IF topic[2] # <<>> THEN <<topic[2]>> ELSE <<>>)
        score4 == trust_floor(score, source_modifier)
        floored == score4 # score
        reasons4 == IF floored THEN Append(reasons, Frag("Hög förtroendekälla/Low baseline", <<>>))
                    ELSE reasons
    IN  IF ~check_geographic_relevance(text)
        THEN [score |-> 0, reason |-> GEO_REASON]
        ELSE IF ~check_work_angle(source, text)
        THEN [score |-> 0, reason |-> WORK_ANGLE_REASON]
        ELSE IF review_gate_applies(source_modifier) /\ review[1]
        THEN [score |-> 0, reason |-> <<review[2]>>]
        ELSE IF sector[1] < 0
        THEN [score |-> 0, reason |-> <<Frag("Irrelevant sektor: ", <<sector[2]>>)>>]
        ELSE [score |-> Min(1000, (score4 * source_modifier) \div 10),
              reason |-> IF reasons4 # <<>> THEN reasons4 ELSE <<Frag("Ingen stark signal", <<>>)>>]

(***************************************************************************)
(* difflib.SequenceMatcher(None, a, b).ratio(), as used by is_similar      *)
(* (src/src/deduplicator.py:9-11).  No junk: isjunk is None and the        *)
(* autojunk heuristic only acts on a second string of 200 or more          *)
(* characters, longer than any title of the model.  Indices are Python's:  *)
(* 0-based, windows [alo, ahi) and [blo, bhi).                             *)
(***************************************************************************)
RECURSIVE RunLength(_, _, _, _, _, _)
\* length of the common run of a and b that ends at a[i], b[j] inside the window
RunLength(a, b, i, j, alo, blo) ==
    IF i < alo \/ j < blo THEN 0
    ELSE IF a[i + 1] # b[j + 1] THEN 0
    ELSE 1 + RunLength(a, b, i - 1, j - 1, alo, blo)

SetMax(S) == CHOOSE x \in S : \A y \in S : y <= x

SetMin(S) == CHOOSE x \in S : \A y \in S : x <= y

\* the longest matching block in a[alo:ahi], b[blo:bhi]; of all longest blocks
\* the one that starts earliest in a, and of those the one earliest in b
find_longest_match(a, b, alo, ahi, blo, bhi) ==
    LET cells == (alo..(ahi - 1)) \X (blo..(bhi - 1))
        bestsize == IF cells = {} THEN 0
                    ELSE SetMax({ RunLength(a, b, c[1], c[2], alo, blo) : c \in cells })
        ends == { c \in cells : RunLength(a, b, c[1], c[2], alo, blo) = bestsize }
        iend == SetMin({ c[1] : c \in ends })
        jend == SetMin({ c[2] : c \in { d \in ends : d[1] = iend } })
    IN  IF bestsize = 0 THEN [i |-> alo, j |-> blo, size |-> 0]
        ELSE [i |-> iend - bestsize + 1, j |-> jend - bestsize + 1, size |-> bestsize]

RECURSIVE MatchedChars(_, _, _, _, _, _)
\* sum of the sizes of get_matching_blocks() restricted to the window
MatchedChars(a, b, alo, ahi, blo, bhi) ==
    LET m == find_longest_match(a, b, alo, ahi, blo, bhi)
    IN  IF m.size = 0 THEN 0
        ELSE m.size
             + (IF alo < m.i /\ blo < m.j
                THEN MatchedChars(a, b, alo, m.i, blo, m.j) ELSE 0)
             + (IF m.i + m.size < ahi /\ m.j + m.size < bhi
                THEN MatchedChars(a, b, m.i + m.size, ahi, m.j + m.size, bhi) ELSE 0)

\* ratio() = 2.0 * matches / (len(a) + len(b)), 1.0 if both are empty, as the
\* fraction <<numerator, denominator>>
ratio(a, b) ==
    IF Len(a) + Len(b) = 0 THEN <<1, 1>>
    ELSE <<2 * MatchedChars(a, b, 0, Len(a), 0, Len(b)), Len(a) + Len(b)>>

\* is_similar; the threshold is in hundredths (0.85 -> 85)
is_similar(a, b, threshold) ==
    LET r == ratio(a, b) IN r[1] * 100 > threshold * r[2]

(***************************************************************************)
(* Configuration: config['app'] is a function from the keys that are set   *)
(* to their values; config.get(key, default) reads it.                     *)
(***************************************************************************)
Get(d, key, default) == IF key \in DOMAIN d THEN d[key] ELSE default

DefaultConfig == [app |-> <<>>]

\* datetime.now(), the same instant for every call of one run
Now == 10

(***************************************************************************)
(* deduplicate_articles (src/src/deduplicator.py)                          *)
(***************************************************************************)
DefaultDedupThreshold == 85

DefaultDedupMaxAgeDays == 7

AD_BLOCKLIST ==
    << <<"a","n","n","o","n","s">>, <<"s","p","o","n","s","r","a","d">>,
       <<"r","e","k","l","a","m">> >>

\* `published_date < cutoff_date` raises TypeError when published_date has no
\* tzinfo (cutoff_date always has one)
DateCompareRaises(published_date) == ~published_date.aware

\* deduplicator.py:33-42: the articles that are neither old nor advertising
FilterArticles(arts, cutoff_date) ==
    SelectSeq(arts, LAMBDA a :
        /\ ~(a.published_date.day < cutoff_date)
        /\ ~AnyIn(AD_BLOCKLIST, Lower(a.title \o SP \o a.summary)))

\* deduplicator.py:63 inserting at the front instead of appending
keep_article_in_front(unique_articles, article) == <<article>> \o unique_articles

\* deduplicator.py:63
keep_article(unique_articles, article) == Append(unique_articles, article)

\* deduplicator.py:64 leaving the URL set as it was
forget_seen_url(seen_urls, url) == seen_urls

\* deduplicator.py:64
add_seen_url(seen_urls, url) == seen_urls \cup {url}

\* deduplicator.py:54-58 comparing the two titles in either order
IsDuplicateTitle_either_order(article, seen_titles, threshold) ==
    \E k \in 1..Len(seen_titles) :
        \/ is_similar(Lower(article.title), Lower(seen_titles[k]), threshold)
        \/ is_similar(Lower(seen_titles[k]), Lower(article.title), threshold)

\* deduplicator.py:54-58
IsDuplicateTitle(article, seen_titles, threshold) ==
    \E k \in 1..Len(seen_titles) :
        is_similar(Lower(article.title), Lower(seen_titles[k]), threshold)

RECURSIVE DedupScan(_, _, _, _, _, _)
\* deduplicator.py:48-65: the scan from the i-th filtered article on
DedupScan(filtered, i, unique_articles, seen_urls, seen_titles, threshold) ==
    IF i > Len(filtered) THEN unique_articles
    ELSE LET article == filtered[i]
         IN  IF article.url \in seen_urls
                \/ IsDuplicateTitle(article, seen_titles, threshold)
             THEN DedupScan(filtered, i + 1, unique_articles, seen_urls, seen_titles,
                            threshold)
             ELSE DedupScan(filtered, i + 1, keep_article(unique_articles, article),
                            add_seen_url(seen_urls, article.url),
                            Append(seen_titles, article.title), threshold)

\* returns [raised, value]: raised when the call ends in an exception
deduplicate_articles(arts, cfg) ==
    LET threshold == Get(cfg.app, "deduplication_threshold", DefaultDedupThreshold)
        max_age_days == Get(cfg.app, "max_article_age_days", DefaultDedupMaxAgeDays)
        cutoff_date == Now - max_age_days
    IN  IF \E i \in 1..Len(arts) : DateCompareRaises(arts[i].published_date)
        THEN [raised |-> TRUE, value |-> <<>>]
        ELSE [raised |-> FALSE,
              value |-> DedupScan(FilterArticles(arts, cutoff_date), 1, <<>>, {}, <<>>,
                                  threshold)]

(***************************************************************************)
(* should_include and categorize_articles (src/src/categorizer.py)         *)
(***************************************************************************)
\* should_include with the default threshold for low-trust domains too
should_include_low_as_default(article, score, source_domain) ==
    LET domain == IF source_domain # <<>> THEN Lower(source_domain) ELSE <<>>
    IN  IF \E k \in 1..Len(HIGH_TRUST_DOMAINS) : Contains(domain, HIGH_TRUST_DOMAINS[k])
        THEN score >= 100
        ELSE score >= 300

should_include(article, score, source_domain) ==
    LET domain == IF source_domain # <<>> THEN Lower(source_domain) ELSE <<>>
    IN  IF \E k \in 1..Len(HIGH_TRUST_DOMAINS) : Contains(domain, HIGH_TRUST_DOMAINS[k])
        THEN score >= 100
        ELSE IF \E k \in 1..Len(LOW_TRUST_DOMAINS) : Contains(domain, LOW_TRUST_DOMAINS[k])
        THEN score >= 500
        ELSE score >= 300

\* CONCEPT_CLUSTERS (categorizer.py:330-344), in dict order: <<name, terms>>
CONCEPT_CLUSTERS ==
    << << "Omställning",
          << <<"o","m","s","t","ä","l","l","n","i","n","g">>,
             <<"u","p","p","s","ä","g","n","i","n","g">>,
             <<"a","r","b","e","t","s","b","r","i","s","t">>, <<"v","a","r","s","e","l">>,
             <<"k","a","r","r","i","ä","r","v","ä","x","l","i","n","g">>,
             <<"n","y","t","t"," ","j","o","b","b">>, <<"a","r","b","e","t","s","l","ö","s">>,
             <<"a","r","b","e","t","s","f","ö","r","m","e","d","l","i","n","g">>,
             <<"t","r","y","g","g","h","e","t","s","r","å","d">>,
             <<"a","v","g","å","n","g","s","e","r","s","ä","t","t","n","i","n","g">>,
             <<"s","t","u","d","i","e","r">>, <<"y","r","k","e","s","v","ä","x","l","i","n","g">> >> >>,
       << "Scenkonst",
          << <<"s","c","e","n","k","o","n","s","t">>, <<"t","e","a","t","e","r">>, <<"d","a","n","s">>,
             <<"m","u","s","i","k">>, <<"o","r","k","e","s","t","e","r">>, <<"o","p","e","r","a">>,
             <<"b","a","l","e","t","t">>, <<"s","k","å","d","e","s","p","e","l","a","r","e">>,
             <<"m","u","s","i","k","e","r">>, <<"d","a","n","s","a","r","e">>,
             <<"k","o","n","s","t","n","ä","r">>, <<"k","u","l","t","u","r">>,
             <<"f","ö","r","e","s","t","ä","l","l","n","i","n","g">>, <<"s","c","e","n">>,
             <<"r","e","p","e","r","t","o","a","r">>, <<"k","o","r","e","o","g","r","a","f">>,
             <<"r","e","g","i","s","s","ö","r">> >> >>,
       << "Civilsamhälle",
          << <<"c","i","v","i","l","s","a","m","h","ä","l","l","e">>, <<"i","d","e","e","l","l">>,
             <<"f","ö","r","e","n","i","n","g">>, <<"s","t","i","f","t","e","l","s","e">>,
             <<"n","g","o">>, <<"f","o","l","k","r","ö","r","e","l","s","e">>,
             <<"i","d","é","b","u","r","e","n">>, <<"f","r","i","v","i","l","l","i","g">>,
             <<"n","o","n","-","p","r","o","f","i","t">> >> >>,
       << "Arbetsmarknad",
          << <<"a","r","b","e","t","s","m","a","r","k","n","a","d">>,
             <<"s","y","s","s","e","l","s","ä","t","t","n","i","n","g">>,
             <<"r","e","k","r","y","t","e","r","i","n","g">>, <<"k","o","m","p","e","t","e","n","s">>,
             <<"b","r","i","s","t","y","r","k","e">>, <<"a","r","b","e","t","s","k","r","a","f","t">>,
             <<"l","ö","n","e","b","i","l","d","n","i","n","g">>,
             <<"a","v","t","a","l","s","r","ö","r","e","l","s","e">> >> >> >>

CatchAll == "Övrigt"

DefaultCatMaxAgeDays == 2

DefaultMinContentLength == 300

DefaultMaxPerCategory == 10

\* [k.lower() for k in terms]
LowerAll(terms) == [k \in 1..Len(terms) |-> Lower(terms[k])]

\* categorizer.py:373-374: a datetime without tzinfo is given the local zone
Localized(published_date) == [published_date EXCEPT !.aware = TRUE]

\* categorizer.py:361-384 with line 382 testing the length alone
DroppedBy_empty_body_is_thin(article, cfg) ==
    LET blocklist == Get(cfg, "blocklist", <<>>)
        blocked_titles == LowerAll(Get(blocklist, "titles", <<>>))
        blocked_urls == LowerAll(Get(blocklist, "urls", <<>>))
        app == Get(cfg, "app", <<>>)
        cutoff_date == Now - Get(app, "max_article_age_days", DefaultCatMaxAgeDays)
        min_content_length == Get(app, "min_content_length", DefaultMinContentLength)
    IN  IF AnyIn(blocked_titles, Lower(article.title)) THEN "blocked_title"
        ELSE IF AnyIn(blocked_urls, Lower(article.url)) THEN "blocked_url"
        ELSE IF article.published_date.day < cutoff_date THEN "old"
        ELSE IF Len(article.body_text) < min_content_length THEN "thin"
        ELSE "none"

\* categorizer.py:361-384: the check that drops the article, or "none"
DroppedBy(article, cfg) ==
    LET blocklist == Get(cfg, "blocklist", <<>>)
        blocked_titles == LowerAll(Get(blocklist, "titles", <<>>))
        blocked_urls == LowerAll(Get(blocklist, "urls", <<>>))
        app == Get(cfg, "app", <<>>)
        cutoff_date == Now - Get(app, "max_article_age_days", DefaultCatMaxAgeDays)
        min_content_length == Get(app, "min_content_length", DefaultMinContentLength)
    IN  IF AnyIn(blocked_titles, Lower(article.title)) THEN "blocked_title"
        ELSE IF AnyIn(blocked_urls, Lower(article.url)) THEN "blocked_url"
        ELSE IF article.published_date.day < cutoff_date THEN "old"
        ELSE IF article.body_text # <<>> /\ Len(article.body_text) < min_content_length
        THEN "thin"
        ELSE "none"

\* categorizer.py:361-378: has the loop body reached the date check
ReachesDateCheck(article, cfg) == DroppedBy(article, cfg) \notin {"blocked_title", "blocked_url"}

\* categorizer.py:406-411: the first configured category with a keyword in the
\* text, or NoCategory
ConfiguredCategory(text_lower, categories_config) ==
    LET hits == SelectSeq(categories_config, LAMBDA c :
                    AnyIn(LowerAll(Get(c, "keywords", <<>>)), text_lower))
    IN  IF hits # <<>> THEN hits[1].name ELSE NoCategory

\* categorizer.py:414-420 without the check of line 418
ClusterCategory_unconfigured(text_lower, output_names) ==
    LET hits == SelectSeq(CONCEPT_CLUSTERS, LAMBDA c : AnyIn(c[2], text_lower))
    IN  IF hits # <<>> THEN hits[1][1] ELSE NoCategory

\* categorizer.py:414-420: the first concept cluster with a term in the text
\* whose name is a key of the output, or NoCategory
ClusterCategory(text_lower, output_names) ==
    LET hits == SelectSeq(CONCEPT_CLUSTERS, LAMBDA c :
                    AnyIn(c[2], text_lower) /\ c[1] \in output_names)
    IN  IF hits # <<>> THEN hits[1][1] ELSE NoCategory

\* categorizer.py:402-430: the category an included article is assigned
AssignedCategory(article, categories_config, output_names) ==
    LET text_lower == Lower(article.title \o SP \o article.summary)
        configured == ConfiguredCategory(text_lower, categories_config)
        cluster == ClusterCategory(text_lower, output_names)
    IN  IF configured \notin {NoCategory, ""} THEN configured
        ELSE IF cluster # NoCategory THEN cluster
        ELSE CatchAll

\* categorizer.py:359-430 with line 398 moved before the decision of line 393
ProcessArticle_scored_before_decision(article, cfg, output_names) ==
    LET dropped == DroppedBy(article, cfg)
        dated == IF ReachesDateCheck(article, cfg)
                 THEN [article EXCEPT !.published_date = Localized(@)]
                 ELSE article
        rel == calculate_relevance(dated)
        included == dropped = "none" /\ should_include(dated, rel.score, dated.domain)
    IN  IF included
        THEN [kept |-> TRUE,
              article |-> [dated EXCEPT
                  !.relevance_score = rel.score,
                  !.category = AssignedCategory(dated, Get(cfg, "categories", <<>>),
                                                output_names)]]
        ELSE [kept |-> FALSE,
              article |-> IF dropped = "none"
                          THEN [dated EXCEPT !.relevance_score = rel.score]
                          ELSE dated]

\* categorizer.py:359-430, one pass of the loop body: the article as the pass
\* leaves it, and whether it was appended to its category's list
ProcessArticle(article, cfg, output_names) ==
    LET dropped == DroppedBy(article, cfg)
        dated == IF ReachesDateCheck(article, cfg)
                 THEN [article EXCEPT !.published_date = Localized(@)]
                 ELSE article
        rel == calculate_relevance(dated)
        included == dropped = "none" /\ should_include(dated, rel.score, dated.domain)
    IN  IF included
        THEN [kept |-> TRUE,
              article |-> [dated EXCEPT
                  !.relevance_score = rel.score,
                  !.category = AssignedCategory(dated, Get(cfg, "categories", <<>>),
                                                output_names)]]
        ELSE [kept |-> FALSE, article |-> dated]

RECURSIVE InsertByDateDesc(_, _)
\* a after every element of the sorted list whose date is not older than a's
InsertByDateDesc(sorted, a) ==
    IF sorted = <<>> THEN <<a>>
    ELSE IF Head(sorted).published_date.day >= a.published_date.day
         THEN <<Head(sorted)>> \o InsertByDateDesc(Tail(sorted), a)
         ELSE <<a>> \o sorted

RECURSIVE SortByDateDesc(_)
\* list.sort(key=published_date, reverse=True): stable, newest first
SortByDateDesc(list) ==
    IF list = <<>> THEN <<>>
    ELSE InsertByDateDesc(SortByDateDesc(SubSeq(list, 1, Len(list) - 1)), list[Len(list)])

\* categorizer.py:352 and 407-408 with the keywords read like the name
RaisesKeyError_keywords(cat_config) ==
    "name" \notin DOMAIN cat_config \/ "keywords" \notin DOMAIN cat_config

\* categorizer.py:352: cat['name'] of a category entry without name raises
\* KeyError; the keywords are read with a default (408)
RaisesKeyError(cat_config) ==
    "name" \notin DOMAIN cat_config

\* categorizer.py:424-427 with every article appended to the catch-all list
ListName_catch_all(category, output_names) == CatchAll

\* categorizer.py:422-430: the list an included article is appended to
ListName(category, output_names) ==
    IF category \in output_names THEN category ELSE CatchAll

\* categorizer.py:436 applied to the list in the order of appending
CategoryList_unsorted(list, limit) == Prefix(list, limit)

\* categorizer.py:433-436: a category list sorted, newest first, and cut
CategoryList(list, limit) == Prefix(SortByDateDesc(list), limit)

\* returns [raised, data, articles]: the category lists and the input articles
\* as the call leaves them; raised when the call ends in an exception
categorize_articles(arts, cfg) ==
    LET categories_config == Get(cfg, "categories", <<>>)
        malformed == \E k \in 1..Len(categories_config) :
                         RaisesKeyError(categories_config[k])
        output_names == { categories_config[k].name : k \in 1..Len(categories_config) }
                        \cup {CatchAll}
        processed == [i \in 1..Len(arts) |-> ProcessArticle(arts[i], cfg, output_names)]
        kept == SelectSeq(processed, LAMBDA p : p.kept)
        limit == Get(Get(cfg, "app", <<>>), "max_articles_per_category",
                     DefaultMaxPerCategory)
        listed(name) ==
            LET mine == SelectSeq(kept, LAMBDA p :
                            ListName(p.article.category, output_names) = name)
            IN  [i \in 1..Len(mine) |-> mine[i].article]
    IN  IF malformed
        THEN [raised |-> TRUE, data |-> <<>>, articles |-> arts]
        ELSE [raised |-> FALSE,
              data |-> [name \in output_names |-> CategoryList(listed(name), limit)],
              articles |-> [i \in 1..Len(arts) |-> processed[i].article]]

(***************************************************************************)
(* enrich_article (src/src/enricher.py)                                    *)
(***************************************************************************)
UpperChar(c) ==
    IF \E k \in 1..Len(LowerCase) : LowerCase[k] = c
    THEN UpperCase[CHOOSE k \in 1..Len(LowerCase) : LowerCase[k] = c]
    ELSE c

\* str.capitalize()
Capitalize(s) ==
    IF s = <<>> THEN <<>>
    ELSE <<UpperChar(s[1])>> \o Lower(SubSeq(s, 2, Len(s)))

\* s.endswith(suffix)
EndsWith(s, suffix) ==
    Len(s) >= Len(suffix) /\ SubSeq(s, Len(s) - Len(suffix) + 1, Len(s)) = suffix

\* s.find(sub, start) with Python's 0-based positions, -1 if absent
Find(s, sub, start) ==
    LET hits == { i \in start..(Len(s) - Len(sub)) : SubSeq(s, i + 1, i + Len(sub)) = sub }
    IN  IF hits = {} THEN -1 ELSE SetMin(hits)

RECURSIVE Replace(_, _, _)
\* s.replace(old, new), old not empty
Replace(s, old, new) ==
    LET i == Find(s, old, 0)
    IN  IF i < 0 THEN s
        ELSE SubSeq(s, 1, i) \o new \o Replace(SubSeq(s, i + Len(old) + 1, Len(s)), old, new)

RECURSIVE Split(_, _)
\* s.split(sep), sep one character
Split(s, sep) ==
    LET i == Find(s, <<sep>>, 0)
    IN  IF i < 0 THEN <<s>>
        ELSE <<SubSeq(s, 1, i)>> \o Split(SubSeq(s, i + 2, Len(s)), sep)

\* len(s.split()): the number of maximal runs of non-blank characters
WordCount(s) ==
    Cardinality({ i \in 1..Len(s) : s[i] # " " /\ (i = 1 \/ s[i - 1] = " ") })

\* the ASCII letters: the first 26 of the model's letters
IsAsciiLetter(c) ==
    \E k \in 1..26 : UpperCase[k] = c \/ LowerCase[k] = c

\* urllib.parse.scheme_chars
IsSchemeChar(c) ==
    IsAsciiLetter(c) \/ c \in {"0","1","2","3","4","5","6","7","8","9","+","-","."}

\* urllib.parse.urlsplit, the part that yields netloc: [raised, netloc].  The
\* URLs of the model hold no blank, control character or non-ASCII host, and no
\* matched pair of brackets.
UrlNetloc(url) ==
    LET i == Find(url, <<":">>, 0)
        has_scheme == /\ i > 0
                      /\ IsAsciiLetter(url[1])
                      /\ \A k \in 1..i : IsSchemeChar(url[k])
        rest == IF has_scheme THEN SubSeq(url, i + 2, Len(url)) ELSE url
        delims == { Find(rest, <<c>>, 2) : c \in {"/", "?", "#"} } \ {-1}
        delim == IF delims = {} THEN Len(rest) ELSE SetMin(delims)
        netloc == IF Prefix(rest, 2) = <<"/","/">> THEN SubSeq(rest, 3, delim) ELSE <<>>
    IN  [raised |-> Contains(netloc, <<"[">>) # Contains(netloc, <<"]">>),
         netloc |-> netloc]

PDF_SUFFIX == <<".","p","d","f">>

VIDEO_MARKERS ==
    << <<"y","o","u","t","u","b","e",".","c","o","m">>, <<"v","i","m","e","o",".","c","o","m">>,
       <<"p","l","a","y",".">> >>

PRESS_MARKERS ==
    << <<"p","r","e","s","s">>, <<"p","r","e","s","s","m","e","d","d","e","l","a","n","d","e">> >>

PODCAST_MARKERS ==
    << <<"p","o","d","d">>, <<"p","o","d","c","a","s","t">> >>

\* enricher.py:16-25
ContentType(url) ==
    LET url_lower == Lower(url)
    IN  IF EndsWith(url_lower, PDF_SUFFIX) THEN "pdf"
        ELSE IF AnyIn(VIDEO_MARKERS, url_lower) THEN "video"
        ELSE IF AnyIn(PRESS_MARKERS, url_lower) THEN "press_release"
        ELSE IF AnyIn(PODCAST_MARKERS, url_lower) THEN "podcast"
        ELSE "article"

\* enricher.py:29-33
ExtractDomain(url) ==
    LET parsed == UrlNetloc(url)
    IN  IF parsed.raised THEN <<>>
        ELSE Replace(parsed.netloc, <<"w","w","w",".">>, <<>>)

\* enricher.py:48-60: <<key, name>>
ORG_MAPPINGS ==
    << << <<"d","n">>, <<"D","a","g","e","n","s"," ","N","y","h","e","t","e","r">> >>,
       << <<"s","v","d">>, <<"S","v","e","n","s","k","a"," ","D","a","g","b","l","a","d","e","t">> >>,
       << <<"s","v","e","r","i","g","e","s","r","a","d","i","o">>, <<"S","v","e","r","i","g","e","s"," ","R","a","d","i","o">> >>,
       << <<"s","v","t">>, <<"S","V","T">> >>,
       << <<"d","a","g","e","n","s","s","a","m","h","a","l","l","e">>, <<"D","a","g","e","n","s"," ","S","a","m","h","ä","l","l","e">> >>,
       << <<"a","r","b","e","t","s","v","a","r","l","d","e","n">>, <<"A","r","b","e","t","s","v","ä","r","l","d","e","n">> >>,
       << <<"l","a","g","-","a","v","t","a","l">>, <<"L","a","g"," ","&"," ","A","v","t","a","l">> >>,
       << <<"a","r","b","e","t","e","t">>, <<"A","r","b","e","t","e","t">> >>,
       << <<"k","o","l","l","e","g","a">>, <<"K","o","l","l","e","g","a">> >>,
       << <<"p","u","b","l","i","k","t">>, <<"P","u","b","l","i","k","t">> >>,
       << <<"a","k","a","d","e","m","i","k","e","r","n">>, <<"A","k","a","d","e","m","i","k","e","r","n">> >>
    >>

UNKNOWN_ORG == <<"O","k","ä","n","d">>

\* enricher.py:37-66 without the overrides of lines 48-62
Organization_capitalized(source, domain) ==
    LET parts == Split(domain, ".")
        name == parts[Len(parts) - 1]
    IN  IF source # <<>> /\ ~Contains(source, <<".">>) THEN source
        ELSE IF domain # <<>>
             THEN IF Len(parts) >= 2 THEN Capitalize(name) ELSE domain
        ELSE UNKNOWN_ORG

\* enricher.py:37-66
Organization(source, domain) ==
    LET parts == Split(domain, ".")
        name == parts[Len(parts) - 1]
        mapped == SelectSeq(ORG_MAPPINGS, LAMBDA m : m[1] = name)
    IN  IF source # <<>> /\ ~Contains(source, <<".">>) THEN source
        ELSE IF domain # <<>>
             THEN IF Len(parts) >= 2
                  THEN IF mapped # <<>> THEN mapped[1][2] ELSE Capitalize(name)
                  ELSE domain
        ELSE UNKNOWN_ORG

WordsPerMinute == 200

\* round(n / d) for n >= 0, d > 0: to the nearest integer, a tie to the even one
RoundHalfEven(n, d) ==
    LET q == n \div d
        r == n % d
    IN  IF 2 * r < d THEN q
        ELSE IF 2 * r > d THEN q + 1
        ELSE IF q % 2 = 0 THEN q ELSE q + 1

\* enricher.py:68-76
EstimatedReadTime(body_text, summary) ==
    LET body_words == IF body_text # <<>> THEN WordCount(body_text) ELSE 0
        word_count == IF body_words = 0 /\ summary # <<>> THEN WordCount(summary)
                      ELSE body_words
    IN  Max(1, RoundHalfEven(word_count, WordsPerMinute))

enrich_article(article) ==
    LET domain == ExtractDomain(article.url)
    IN  [article EXCEPT
            !.content_type = ContentType(article.url),
            !.domain = domain,
            !.organization = Organization(article.source, domain),
            !.estimated_read_time = EstimatedReadTime(article.body_text, article.summary)]

\* enricher.py:80-84
enrich_articles(arts) == [i \in 1..Len(arts) |-> enrich_article(arts[i])]

(***************************************************************************)
(* scrape_web (src/src/scraper.py:328-445): a pool of five workers runs    *)
(* scrape_site_with_timeout once per active site; each call runs           *)
(* scrape_site in a thread of its own and waits for it up to the per-site  *)
(* timeout.  Durations are not modelled: a timeout may fire whenever the   *)
(* call it bounds has not ended (with the code's 45 s per site and 180 s   *)
(* for the phase, the global timeout needs more than three rounds of       *)
(* calls on every worker).  HTTP and HTML are outside the model: a site    *)
(* has a number of links that pass the checks of scrape_site, and a        *)
(* scraped article is <<site, k>>, the k-th article found on the site.     *)
(* The exception path of scrape_site_with_timeout (338, 351-352) is left   *)
(* out: scrape_site catches what its requests raise (319-320).             *)
(***************************************************************************)
MaxWorkers == 5

MaxPerSite == 5

MaxSites == 3

MaxFound == 1

\* the sites whose pages link to fresh articles; the others yield nothing
NewsSites == {1, 2}

SiteLinks(s) == IF s \in NewsSites THEN Min(MaxFound, MaxPerSite) ELSE 0

\* articles 1..c of site s
Items(s, c) == { <<s, k>> : k \in 1..c }

NoScrape ==
    [ n |-> 0, task |-> <<>>, thread |-> <<>>, found |-> <<>>, phase |-> "idle",
      global_timeout |-> FALSE, done |-> {}, pending |-> {}, cancel_todo |-> {},
      all_articles |-> {} ]

\* scraper.py:358-384: n active sites, one future submitted for each; no
\* active site: return [] at once (364-366)
StartScrape(n) ==
    [ n |-> n,
      task |-> [s \in 1..n |-> "queued"],
      thread |-> [s \in 1..n |-> "none"],
      found |-> [s \in 1..n |-> 0],
      phase |-> IF n = 0 THEN "returned" ELSE "wait",
      global_timeout |-> FALSE, done |-> {}, pending |-> {}, cancel_todo |-> {},
      all_articles |-> {} ]

Sites == 1..scrape.n

Queued == { s \in Sites : scrape.task[s] = "queued" }

\* futures whose call of scrape_site_with_timeout has not returned
Running == { s \in Sites : scrape.task[s] = "running" }

\* futures in a finished state: the call returned a result
Completed == { s \in Sites : scrape.task[s] \in {"returned", "timed_out"} }

\* executions of scrape_site in progress
Scraping == { s \in Sites : scrape.thread[s] = "alive" }

\* scraper.py:349 with the articles collected so far handed back
timeout_result_partial(s, found) == Items(s, found)

\* scraper.py:347-349: the result of a call whose thread is alive at the timeout
timeout_result(s, found) == {}

\* future.result() of a completed future
Result(s) ==
    IF scrape.task[s] = "returned" THEN Items(s, scrape.found[s])
    ELSE timeout_result(s, scrape.found[s])

\* a pool worker takes the oldest submitted future that was not cancelled and
\* calls scrape_site_with_timeout, which starts the thread (341-342)
WorkerStarts ==
    /\ scrape.phase \notin {"idle", "returned"}
    /\ Queued # {}
    /\ Cardinality(Running) < MaxWorkers
    /\ LET s == SetMin(Queued)
       IN  scrape' = [scrape EXCEPT !.task[s] = "running", !.thread[s] = "alive"]

\* scrape_site appends an article (scraper.py:299-309) while its caller waits
ScrapeFinds(s) ==
    /\ scrape.task[s] = "running"
    /\ scrape.found[s] < SiteLinks(s)
    /\ scrape' = [scrape EXCEPT !.found[s] = @ + 1]

\* scrape_site returns within the timeout: join returns, the thread is not
\* alive, the call returns result (336, 345-354)
ScrapeReturns(s) ==
    /\ scrape.task[s] = "running"
    /\ scrape' = [scrape EXCEPT !.task[s] = "returned", !.thread[s] = "ended"]

\* t.join(timeout) gives up with the thread alive: the call returns [] and the
\* thread goes on (345-349); found keeps the number collected by then
SiteTimeout(s) ==
    /\ scrape.task[s] = "running"
    /\ scrape' = [scrape EXCEPT !.task[s] = "timed_out"]

\* the scrape_site of an abandoned thread comes to its end
AbandonedScrapeEnds(s) ==
    /\ scrape.task[s] = "timed_out"
    /\ scrape.thread[s] = "alive"
    /\ scrape' = [scrape EXCEPT !.thread[s] = "ended"]

\* concurrent.futures.wait returns because every future completed (389-393)
WaitReturns ==
    /\ scrape.phase = "wait"
    /\ Completed = Sites
    /\ scrape' = [scrape EXCEPT !.phase = "results", !.done = Sites, !.pending = {}]

\* concurrent.futures.wait returns at the global timeout with futures not done
GlobalTimeout ==
    /\ scrape.phase = "wait"
    /\ Completed # Sites
    /\ scrape' = [scrape EXCEPT !.phase = "results", !.done = Completed,
                                !.pending = Sites \ Completed,
                                !.cancel_todo = Sites \ Completed,
                                !.global_timeout = TRUE]

\* scraper.py:396-418: the results of the done futures are merged; the list's
\* order follows the iteration order of the set `done` and is not modelled
ProcessDone ==
    /\ scrape.phase = "results"
    /\ scrape' = [scrape EXCEPT
           !.all_articles = UNION { Result(s) : s \in scrape.done },
           !.phase = IF scrape.pending = {} THEN "shutdown" ELSE "cancel"]

\* scraper.py:421-427, one pass of the loop: future.cancel() cancels a future
\* that no worker has taken and leaves any other as it is
CancelPending(s) ==
    /\ scrape.phase = "cancel"
    /\ s \in scrape.cancel_todo
    /\ scrape' = [scrape EXCEPT
           !.task[s] = IF @ = "queued" THEN "cancelled" ELSE @,
           !.cancel_todo = @ \ {s},
           !.phase = IF scrape.cancel_todo = {s} THEN "shutdown" ELSE "cancel"]

\* leaving the with block: ThreadPoolExecutor.__exit__ is shutdown(wait=True),
\* which joins the workers; they end when no future is queued or running.
\* Then scrape_web returns all_articles (429-445).
ScrapeWebReturns ==
    /\ scrape.phase = "shutdown"
    /\ Queued = {} /\ Running = {}
    /\ scrape' = [scrape EXCEPT !.phase = "returned"]

(***************************************************************************)
(* The feed collectors (src/src/collector.py, src/src/search_agent.py).    *)
(* feedparser and the network are outside the model: what                  *)
(* feedparser.parse returns for a configured feed or a search query is an  *)
(* input, [name, url, outcome, entries], outcome "ok", "bozo" (the feed is *)
(* reported as a parse error) or "raises".  An entry is [title, link,      *)
(* published, summary]; entries carry no source element.  A date string is *)
(* [fmt, day, zone]: fmt "none" for '', "garbage" for text that is no      *)
(* date, "rfc822" or "iso" for a date in that format, with or without a    *)
(* zone.                                                                   *)
(***************************************************************************)
MaxPerFeed == 10

SummaryLimit == 500

DescriptionLimit == 300

MaxAgeDays == 2

SearchStartScore == 600

DateString(fmt, day, zone) == [fmt |-> fmt, day |-> day, zone |-> zone]

Entry(title, link, published, summary) ==
    [ title |-> title, link |-> link, published |-> published, summary |-> summary ]

FeedResult(name, url, outcome, entries) ==
    [ name |-> name, url |-> url, outcome |-> outcome, entries |-> entries ]

NoFeeds == [ source |-> "none", enabled |-> FALSE, results |-> <<>> ]

\* collector.py:10-20; dateutil parses both formats, a datetime without zone
\* is taken as local time
parse_date(date_str) ==
    IF date_str.fmt \in {"none", "garbage"} THEN Aware(Now)
    ELSE Aware(date_str.day)

\* collector.py:49-66 with an entry whose date is missing or no date left out
rss_entry_articles_date_skipped(entry, source_name) ==
    IF entry.link = <<>> \/ entry.published.fmt \in {"none", "garbage"} THEN <<>>
    ELSE << Article(entry.title, entry.link, source_name,
                    parse_date(entry.published), Prefix(entry.summary, SummaryLimit)) >>

\* collector.py:48-70, one pass of the entry loop: the articles appended
rss_entry_articles(entry, source_name) ==
    IF entry.link = <<>> THEN <<>>
    ELSE << Article(entry.title, entry.link, source_name,
                    parse_date(entry.published), Prefix(entry.summary, SummaryLimit)) >>

RECURSIVE rss_entries(_, _, _)
\* collector.py:47-70: the entry loop from entry k on
rss_entries(entries, k, source_name) ==
    IF k > Len(entries) THEN <<>>
    ELSE rss_entry_articles(entries[k], source_name) \o rss_entries(entries, k + 1, source_name)

\* collector.py:31-72 with a feed reported as a parse error left out
feed_articles_bozo_skipped(feed) ==
    IF feed.url = <<>> \/ feed.outcome \in {"raises", "bozo"} THEN <<>>
    ELSE rss_entries(Prefix(feed.entries, MaxPerFeed), 1, feed.name)

\* collector.py:31-72, one pass of the feed loop: a feed without url is
\* passed over, an exception of feedparser.parse is logged, a parse error is
\* logged and the entries are read all the same
feed_articles(feed) ==
    IF feed.url = <<>> \/ feed.outcome = "raises" THEN <<>>
    ELSE rss_entries(Prefix(feed.entries, MaxPerFeed), 1, feed.name)

RECURSIVE rss_feeds(_, _)
\* collector.py:31-72: the feed loop from feed k on
rss_feeds(rss, k) ==
    IF k > Len(rss) THEN <<>>
    ELSE feed_articles(rss[k]) \o rss_feeds(rss, k + 1)

\* collector.py:22-72
collect_rss(rss) == rss_feeds(rss, 1)

\* search_agent.py:117-123: parsedate_to_datetime reads RFC 822 dates only;
\* <<>> stands for None
agent_parse_date(date_str) ==
    IF date_str.fmt = "rfc822"
    THEN << IF date_str.zone THEN Aware(date_str.day) ELSE Naive(date_str.day) >>
    ELSE <<>>

\* search_agent.py:125-134
is_too_old(published) == Now - published.day > MaxAgeDays

\* search_agent.py:86-92
extract_real_url(google_url) == google_url

RECURSIVE LastSegment(_, _)
\* s.split(sep)[-1]
LastSegment(s, sep) ==
    LET i == Find(s, sep, 0)
    IN  IF i < 0 THEN s ELSE LastSegment(SubSeq(s, i + Len(sep) + 1, Len(s)), sep)

RECURSIVE Strip(_)
\* s.strip(), blanks being the only whitespace
Strip(s) ==
    IF s = <<>> THEN s
    ELSE IF s[1] = " " THEN Strip(Tail(s))
    ELSE IF s[Len(s)] = " " THEN Strip(SubSeq(s, 1, Len(s) - 1))
    ELSE s

UNKNOWN_SOURCE == <<"O","k","ä","n","d"," ","k","ä","l","l","a">>

SOURCE_SEPARATOR == <<" ","-"," ">>

\* search_agent.py:94-106
extract_source(entry) ==
    IF Contains(entry.title, SOURCE_SEPARATOR)
    THEN Strip(LastSegment(entry.title, SOURCE_SEPARATOR))
    ELSE UNKNOWN_SOURCE

RECURSIVE RemoveTags(_)
\* re.sub(r'<[^>]+>', '', s)
RemoveTags(s) ==
    LET i == Find(s, <<"<">>, 0)
    IN  IF i < 0 THEN s
        ELSE LET j == Find(s, <<">">>, i + 1)
             IN  IF j < 0 THEN s
                 ELSE IF j = i + 1
                      THEN SubSeq(s, 1, i + 2) \o RemoveTags(SubSeq(s, i + 3, Len(s)))
                      ELSE SubSeq(s, 1, i) \o RemoveTags(SubSeq(s, j + 2, Len(s)))

RECURSIVE JoinWords(_)
\* ' '.join(s.split())
JoinWords(s) ==
    LET t == Strip(s)
        i == Find(t, SP, 0)
    IN  IF i < 0 THEN t
        ELSE SubSeq(t, 1, i) \o SP \o JoinWords(SubSeq(t, i + 2, Len(t)))

\* search_agent.py:108-115
clean_description(summary) == Prefix(JoinWords(RemoveTags(summary)), DescriptionLimit)

\* search_agent.py:65-72 and 152-164: the Article made of a search result
SearchArticle(entry, url, published, query) ==
    [ Article(entry.title, url, extract_source(entry), published,
              clean_description(entry.summary))
      EXCEPT !.relevance_score = SearchStartScore, !.found_via = query ]

RECURSIVE search_entries(_, _, _, _)
\* search_agent.py:45-75: the entry loop from entry k on; acc carries
\* seen_urls and the results so far
search_entries(entries, k, query, acc) ==
    IF k > Len(entries) THEN acc
    ELSE LET entry == entries[k]
             article_url == extract_real_url(entry.link)
             published == agent_parse_date(entry.published)
             seen == [acc EXCEPT !.seen_urls = @ \cup {article_url}]
         IN  IF article_url \in acc.seen_urls
             THEN search_entries(entries, k + 1, query, acc)
             ELSE IF published # <<>> /\ is_too_old(published[1])
             THEN search_entries(entries, k + 1, query, seen)
             ELSE search_entries(entries, k + 1, query,
                      [seen EXCEPT !.all_articles =
                          Append(@, SearchArticle(entry, article_url,
                                     IF published = <<>> THEN Aware(Now) ELSE published[1],
                                     query))])

RECURSIVE search(_, _, _)
\* search_agent.py:25-84: the query loop from query k on; a feed that raises
\* or is reported as a parse error is passed over
search(queries, k, acc) ==
    IF k > Len(queries) THEN acc.all_articles
    ELSE IF queries[k].outcome # "ok" THEN search(queries, k + 1, acc)
    ELSE search(queries, k + 1, search_entries(queries[k].entries, 1, queries[k].name, acc))

\* search_agent.py:136-166
run_search_agent(enabled, queries) ==
    IF ~enabled THEN <<>>
    ELSE search(queries, 1, [seen_urls |-> {}, all_articles |-> <<>>])

\* main.py:75-77 with --source rss
CollectRss ==
    /\ stage = "collect"
    /\ feeds.source = "rss"
    /\ articles' = articles \o collect_rss(feeds.results)
    /\ stage' = "collected"
    /\ UNCHANGED <<scored, dedup_in, dedup_runs, categorized_data, config, scrape, feeds, site>>

\* main.py:87-89 with --source search
RunSearchAgent ==
    /\ stage = "collect"
    /\ feeds.source = "search"
    /\ articles' = articles \o run_search_agent(feeds.enabled, feeds.results)
    /\ stage' = "collected"
    /\ UNCHANGED <<scored, dedup_in, dedup_runs, categorized_data, config, scrape, feeds, site>>

(***************************************************************************)
(* The link loop of scrape_site (src/src/scraper.py:220-317) for one site. *)
(* The page and its parsing are outside the model: each element of the     *)
(* page is an input, given by how the loop body ends on it:                *)
(*   "not_candidate"  a check before the fetch passes it over (228-262)    *)
(*   "article"        fetched, an article is appended (266-309)            *)
(*   "no_article"     fetched, then skipped: no date, too old, too thin    *)
(*   "timeout"        the fetch raises Timeout or ConnectionError (311)    *)
(*   "error"          the fetch raises anything else, e.g. the HTTPError   *)
(*                    of raise_for_status (315)                            *)
(* log is the list of the elements gone through.                           *)
(***************************************************************************)
MAX_TIMEOUTS == 3

MaxLinks == 6

ElementOutcomes == {"not_candidate", "article", "no_article", "timeout", "error"}

NoSite ==
    [ phase |-> "idle", log |-> <<>>, consecutive_timeouts |-> 0, count |-> 0,
      reason |-> "none" ]

\* scraper.py:194-218: the state at the start of the loop
StartSite == [NoSite EXCEPT !.phase = "loop"]

\* scraper.py:267-270 and 311-317: the counter after the loop body
consecutive_timeouts_after(before, outcome) ==
    IF outcome \in {"article", "no_article"} THEN 0
    ELSE IF outcome = "timeout" THEN before + 1
    ELSE before

\* scraper.py:220-317, one pass of the loop body that reaches neither break
SiteElement ==
    /\ site.phase = "loop"
    /\ site.count < MaxPerSite
    /\ site.consecutive_timeouts < MAX_TIMEOUTS
    /\ Len(site.log) < MaxLinks
    /\ \E outcome \in ElementOutcomes :
          site' = [site EXCEPT
              !.log = Append(@, outcome),
              !.consecutive_timeouts = consecutive_timeouts_after(@, outcome),
              !.count = IF outcome = "article" THEN @ + 1 ELSE @]
    /\ UNCHANGED <<scored, articles, stage, dedup_in, dedup_runs, categorized_data, config, scrape, feeds>>

\* scraper.py:221-222: five articles found and an element left
SiteBreakCount ==
    /\ site.phase = "loop"
    /\ site.count >= MaxPerSite
    /\ site' = [site EXCEPT !.phase = "done", !.reason = "count"]
    /\ UNCHANGED <<scored, articles, stage, dedup_in, dedup_runs, categorized_data, config, scrape, feeds>>

\* scraper.py:224-226: the counter at its limit and an element left
SiteBreakTimeouts ==
    /\ site.phase = "loop"
    /\ site.count < MaxPerSite
    /\ site.consecutive_timeouts >= MAX_TIMEOUTS
    /\ site' = [site EXCEPT !.phase = "done", !.reason = "timeouts"]
    /\ UNCHANGED <<scored, articles, stage, dedup_in, dedup_runs, categorized_data, config, scrape, feeds>>

\* the page has no further element
SiteLoopEnds ==
    /\ site.phase = "loop"
    /\ site' = [site EXCEPT !.phase = "done", !.reason = "end"]
    /\ UNCHANGED <<scored, articles, stage, dedup_in, dedup_runs, categorized_data, config, scrape, feeds>>

(***************************************************************************)
(* Inputs of the scorer: articles whose title is a short phrase over a     *)
(* vocabulary that reaches every keyword table, with summaries and bodies  *)
(* that add geography and sector terms, from sources of every trust tier.  *)
(***************************************************************************)
MaxTitleWords == 2

ScorerWords ==
    { <<"T","e","a","t","e","r">>,                          \* in-scope sector, performing arts
      <<"k","o","m","m","u","n">>,                          \* out-of-scope sector
      <<"v","a","r","s","e","l">>,                          \* core topic, keyword of both gates
      <<"a","r","b","e","t","s","b","r","i","s","t">>,      \* core topic, work-angle gate only
      <<"k","o","n","s","e","r","t">>,                      \* performance term
      <<"b","e","t","y","g">>,                              \* review indicator
      <<"j","o","b","b">> }                                 \* review gate's keyword list only

RECURSIVE Phrases(_)
\* phrases of at most n words joined by single spaces
Phrases(n) ==
    IF n = 0 THEN { <<>> }
    ELSE LET shorter == Phrases(n - 1)
         IN  shorter \cup { p \o (IF p = <<>> THEN <<>> ELSE SP) \o w :
                            p \in shorter, w \in ScorerWords }

ScorerSummaries ==
    { <<>>,
      <<"N","o","r","g","e">>,
      <<"S","v","e","r","i","g","e"," ","o","c","h"," ","N","o","r","g","e">>,
      \* four core topics
      <<"O","m","s","t","ä","l","l","n","i","n","g","s","s","t","ö","d"," ","k","o","l","l","e","k","t","i","v","a","v","t","a","l"," ","l","ö","n">> }

\* five in-scope sector terms
ScorerBodies ==
    { <<>>,
      <<"K","u","l","t","u","r","s","e","k","t","o","r"," ","d","a","n","s","a","r","e">> }

ScorerDomains ==
    { <<"p","t","k",".","s","e">>,                                          \* high trust
      <<"m","u","s","i","k","e","r","f","o","r","b","u","n","d","e","t",".","s","e">>, \* high and medium
      <<"r","e","g","e","r","i","n","g","e","n",".","s","e">>,              \* medium trust
      <<"t","n",".","s","e">>,                                              \* low trust
      <<"S","V","T",".","s","e">>,                                          \* general news
      <<"e","x","a","m","p","l","e",".","c","o","m">>,                      \* in no list
      <<>> }                                                                \* not enriched

ScorerSources ==
    { <<"T","R","S">>, <<"t","v","4",".","s","e">> }

ExampleUrl == <<"h","t","t","p",":","/","/","e","x","a","m","p","l","e",".","c","o","m">>

\* the source label only matters to the scorer when there is no domain
ScorerSourcesFor(d) == IF d = <<>> THEN ScorerSources ELSE { <<"T","R","S">> }

ScorerArticles ==
    UNION { { [ [ Article(t, ExampleUrl, s, Aware(Now), m)
                  EXCEPT !.body_text = b ] EXCEPT !.domain = d ] :
              t \in Phrases(MaxTitleWords), m \in ScorerSummaries,
              b \in ScorerBodies, s \in ScorerSourcesFor(d) } :
            d \in ScorerDomains }

NoResult == [article |-> Article(<<>>, <<>>, <<>>, Aware(0), <<>>), score |-> -1, reason |-> <<>>]

InitIdle ==
    /\ scored = NoResult
    /\ articles = <<>>
    /\ stage = "collect"
    /\ dedup_in = <<>>
    /\ dedup_runs = 0
    /\ categorized_data = <<>>
    /\ config = DefaultConfig
    /\ scrape = NoScrape
    /\ feeds = NoFeeds
    /\ site = NoSite

\* test_reviews.py:55-64: an article is built for the scorer
BuildArticle ==
    /\ stage = "collect"
    /\ \E a \in ScorerArticles : scored' = [NoResult EXCEPT !.article = a]
    /\ stage' = "built"
    /\ UNCHANGED <<articles, dedup_in, dedup_runs, categorized_data, config, scrape, feeds, site>>

\* test_reviews.py:66: score, reason = scorer.calculate_relevance(article)
CalculateRelevance ==
    /\ stage = "built"
    /\ \E r \in {calculate_relevance(scored.article)} :
           scored' = [scored EXCEPT !.score = r.score, !.reason = r.reason]
    /\ stage' = "scored"
    /\ UNCHANGED <<articles, dedup_in, dedup_runs, categorized_data, config, scrape, feeds, site>>

NextScorer == BuildArticle \/ CalculateRelevance

SpecScorer == InitIdle /\ [][NextScorer]_vars

(***************************************************************************)
(* Inputs of the deduplicator: titles that are similar, similar in a chain *)
(* or similar in one argument order only, under two URLs, and one article  *)
(* each that is old or advertising.                                        *)
(***************************************************************************)
MaxDedupArticles == 3

DedupTitles ==
    { <<"A","b","c">>, <<"a","b","c",".">>, <<"a","b","c",".",".">>,
      <<"a","a","a","a","a","b","a">>, <<"a","a","b","a","a","a","b">> }

Url1 == <<"h","t","t","p","s",":","/","/","p","t","k",".","s","e","/","a">>

Url2 == <<"h","t","t","p","s",":","/","/","w","w","w",".","t","n",".","s","e","/","b">>

SourceLabel == <<"T","R","S">>

DedupArticles ==
    { Article(t, u, SourceLabel, Aware(Now), <<>>) : t \in DedupTitles, u \in {Url1, Url2} }
    \cup { Article(<<"A","b","c">>, Url1, SourceLabel, Aware(Now - 8), <<>>),
           Article(<<"A","b","c">>, Url2, SourceLabel, Aware(Now), <<"R","e","k","l","a","m">>) }

DedupConfigs ==
    { DefaultConfig, [app |-> [deduplication_threshold |-> 50]] }

InitDedup ==
    /\ scored = NoResult
    /\ articles = <<>>
    /\ stage = "collect"
    /\ dedup_in = <<>>
    /\ dedup_runs = 0
    /\ categorized_data = <<>>
    /\ config \in DedupConfigs
    /\ scrape = NoScrape
    /\ feeds = NoFeeds
    /\ site = NoSite

\* a collector hands over one more article
CollectForDedup ==
    /\ stage = "collect"
    /\ Len(articles) < MaxDedupArticles
    /\ \E a \in DedupArticles : articles' = Append(articles, a)
    /\ UNCHANGED <<scored, stage, dedup_in, dedup_runs, categorized_data, config, scrape, feeds, site>>

\* articles = deduplicate_articles(articles, config), on the collected list and
\* once more on its own output
DeduplicateCall ==
    /\ stage \in {"collect", "deduped"}
    /\ dedup_runs < 2
    /\ \E r \in {deduplicate_articles(articles, config)} :
           IF r.raised
           THEN /\ stage' = "failed"
                /\ UNCHANGED articles
           ELSE /\ stage' = "deduped"
                /\ articles' = r.value
    /\ dedup_in' = articles
    /\ dedup_runs' = dedup_runs + 1
    /\ UNCHANGED <<scored, categorized_data, config, scrape, feeds, site>>

NextDedup == CollectForDedup \/ DeduplicateCall

SpecDedup == InitDedup /\ [][NextDedup]_vars

(***************************************************************************)
(* Inputs of the categorizer: enriched articles of every trust tier whose  *)
(* scores fall on both sides of the tier's threshold, and one article each *)
(* that is too old or carries a date without a timezone.                   *)
(***************************************************************************)
MaxCatArticles == 2

Url3 == <<"h","t","t","p",":","/","/","e","x","a","m","p","l","e",".","c","o","m","/","c">>

CatTitles ==
    { <<"T","e","a","t","e","r">>,
      <<"T","e","a","t","e","r"," ","v","a","r","s","e","l">>,
      <<"v","a","r","s","e","l"," ","a","r","b","e","t","s","b","r","i","s","t">>,
      <<"n","y","h","e","t">> }

\* test_refactor.py: articles are enriched, then handed to categorize_articles
CatArticles ==
    { enrich_article(Article(t, u, SourceLabel, Aware(Now), <<>>)) :
        t \in CatTitles, u \in {Url1, Url2, Url3} }
    \cup { enrich_article(Article(<<"T","e","a","t","e","r">>, Url1, SourceLabel, d, <<>>)) :
             d \in {Naive(Now), Aware(Now - 3)} }

CatConfigs ==
    { DefaultConfig,
      [categories |-> << [name |-> "Omställning",
                          keywords |-> << <<"V","a","r","s","e","l">> >>],
                         [name |-> "Scenkonst"] >>,
       app |-> [max_articles_per_category |-> 1]],
      \* two categories share a keyword; of the clusters only Scenkonst is configured
      [categories |-> << [name |-> "Scenkonst",
                          keywords |-> << <<"o","p","e","r","a">> >>],
                         [name |-> "Kultur",
                          keywords |-> << <<"a","r","b","e","t","s","b","r","i","s","t">> >>],
                         [name |-> "Arbetsliv",
                          keywords |-> << <<"A","r","b","e","t","s","b","r","i","s","t">>,
                                          <<"n","y","h","e","t">> >>] >>,
       app |-> <<>>] }

\* a configuration whose last category entry has no name
NamelessCategoryConfig ==
    [categories |-> << [name |-> "Scenkonst",
                        keywords |-> << <<"t","e","a","t","e","r">> >>],
                       [keywords |-> << <<"v","a","r","s","e","l">> >>] >>,
     app |-> <<>>]

InitCategorize ==
    /\ scored = NoResult
    /\ articles = <<>>
    /\ stage = "collect"
    /\ dedup_in = <<>>
    /\ dedup_runs = 0
    /\ categorized_data = <<>>
    /\ config \in CatConfigs \cup {NamelessCategoryConfig}
    /\ scrape = NoScrape
    /\ feeds = NoFeeds
    /\ site = NoSite

\* one more enriched article is put on the list
CollectForCategorize ==
    /\ stage = "collect"
    /\ Len(articles) < MaxCatArticles
    /\ \E a \in CatArticles : articles' = Append(articles, a)
    /\ UNCHANGED <<scored, stage, dedup_in, dedup_runs, categorized_data, config, scrape, feeds, site>>

\* categorized_data = categorize_articles(articles, config); the articles of
\* the list are the objects the call works on
CategorizeCall ==
    /\ stage = "collect"
    /\ \E r \in {categorize_articles(articles, config)} :
           /\ articles' = r.articles
           /\ categorized_data' = r.data
           /\ stage' = IF r.raised THEN "failed" ELSE "categorized"
    /\ dedup_in' = articles
    /\ UNCHANGED <<scored, dedup_runs, config, scrape, feeds, site>>

NextCategorize == CollectForCategorize \/ CategorizeCall

SpecCategorize == InitCategorize /\ [][NextCategorize]_vars

(***************************************************************************)
(* Inputs of the categorizer's filters and of its sort and cut: articles   *)
(* of one category that differ in date, body text, title or url, under     *)
(* configurations with a blocklist, a content-length minimum, an age       *)
(* window and a list limit of their own.                                   *)
(***************************************************************************)
SportUrl == <<"h","t","t","p","s",":","/","/","w","w","w",".","d","n",".","s","e","/","S","p","o","r","t","/","a">>

ListArticle(title, url, published_date, body_text) ==
    enrich_article([Article(title, url, SourceLabel, published_date, <<>>)
                       EXCEPT !.body_text = body_text])

ListArticles ==
    { ListArticle(<<"T","e","a","t","e","r"," ","v","a","r","s","e","l">>, Url1, d, <<>>) :
        d \in {Aware(Now), Aware(Now - 1), Aware(Now - 3), Naive(Now - 1), Naive(Now - 3)} }
    \cup { ListArticle(<<"T","e","a","t","e","r"," ","v","a","r","s","e","l">>, Url2, d, <<>>) :
             d \in {Aware(Now), Naive(Now - 1)} }
    \cup { ListArticle(<<"T","e","a","t","e","r"," ","v","a","r","s","e","l">>, Url1, Aware(Now), b) :
             b \in { <<"k","o","r","t">>, <<"l","ä","n","g","r","e">> } }
    \cup { ListArticle(<<"T","e","a","t","e","r"," ","v","a","r","s","e","l"," ","q","u","i","z">>,
                       Url1, Aware(Now), <<>>),
           ListArticle(<<"T","e","a","t","e","r"," ","v","a","r","s","e","l">>,
                       SportUrl, Naive(Now), <<>>),
           ListArticle(<<"T","e","a","t","e","r">>, Url1, Aware(Now - 1), <<>>) }

ListCategories ==
    << [name |-> "Omställning", keywords |-> << <<"V","a","r","s","e","l">> >>],
       [name |-> "Scenkonst", keywords |-> << <<"o","p","e","r","a">> >>] >>

ListConfigs ==
    { DefaultConfig,
      [categories |-> ListCategories,
       app |-> [max_articles_per_category |-> 1, min_content_length |-> 5],
       blocklist |-> [titles |-> << <<"Q","u","i","z">> >>,
                      urls |-> << <<"/","S","P","O","R","T","/">> >>]],
      [categories |-> ListCategories,
       app |-> [max_article_age_days |-> 5]] }

InitLists ==
    /\ scored = NoResult
    /\ articles = <<>>
    /\ stage = "collect"
    /\ dedup_in = <<>>
    /\ dedup_runs = 0
    /\ categorized_data = <<>>
    /\ config \in ListConfigs
    /\ scrape = NoScrape
    /\ feeds = NoFeeds
    /\ site = NoSite

\* one more enriched article is put on the list
CollectForLists ==
    /\ stage = "collect"
    /\ Len(articles) < MaxCatArticles
    /\ \E a \in ListArticles : articles' = Append(articles, a)
    /\ UNCHANGED <<scored, stage, dedup_in, dedup_runs, categorized_data, config, scrape, feeds, site>>

NextLists == CollectForLists \/ CategorizeCall

SpecLists == InitLists /\ [][NextLists]_vars

(***************************************************************************)
(* The run of main(): collected articles are enriched, deduplicated and    *)
(* categorized; an exception of any stage ends the run with exit status 1. *)
(* Collected dates are timezone-aware except those the search agent parses *)
(* from a date with the zone "-0000".                                      *)
(***************************************************************************)
MaxArticles == 2

\* no scheme: urlparse finds no netloc
BadUrl == <<"p","t","k",".","s","e","/","a">>

CollectedArticles ==
    { Article(t, u, SourceLabel, d, <<>>) :
        t \in { <<"T","e","a","t","e","r"," ","v","a","r","s","e","l">>, <<"n","y","h","e","t">> },
        u \in {Url1, Url2, BadUrl},
        d \in {Aware(Now), Aware(Now - 3), Naive(Now)} }

Init ==
    /\ scored = NoResult
    /\ articles = <<>>
    /\ stage = "collect"
    /\ dedup_in = <<>>
    /\ dedup_runs = 0
    /\ categorized_data = <<>>
    /\ config \in CatConfigs
    /\ scrape = NoScrape
    /\ feeds = NoFeeds
    /\ site = NoSite

\* main.py:76-89: articles.extend(...) of the collectors
Collect ==
    /\ stage = "collect"
    /\ Len(articles) < MaxArticles
    /\ \E a \in CollectedArticles : articles' = Append(articles, a)
    /\ UNCHANGED <<scored, stage, dedup_in, dedup_runs, categorized_data, config, scrape, feeds, site>>

\* main.py:95
EnrichArticles ==
    /\ stage = "collect"
    /\ articles' = enrich_articles(articles)
    /\ stage' = "enriched"
    /\ UNCHANGED <<scored, dedup_in, dedup_runs, categorized_data, config, scrape, feeds, site>>

\* main.py:98, and 118-120 when the call raises
Deduplicate ==
    /\ stage = "enriched"
    /\ \E r \in {deduplicate_articles(articles, config)} :
           IF r.raised
           THEN /\ stage' = "failed"
                /\ UNCHANGED <<articles, dedup_runs>>
           ELSE /\ stage' = "deduped"
                /\ articles' = r.value
                /\ dedup_runs' = dedup_runs + 1
    /\ dedup_in' = articles
    /\ UNCHANGED <<scored, categorized_data, config, scrape, feeds, site>>

\* main.py:101, and 118-120 when the call raises
Categorize ==
    /\ stage = "deduped"
    /\ \E r \in {categorize_articles(articles, config)} :
           /\ articles' = r.articles
           /\ categorized_data' = r.data
           /\ stage' = IF r.raised THEN "failed" ELSE "categorized"
    /\ UNCHANGED <<scored, dedup_in, dedup_runs, config, scrape, feeds, site>>

Next == Collect \/ EnrichArticles \/ Deduplicate \/ Categorize

Spec == Init /\ [][Next]_vars

(***************************************************************************)
(* Runs of main() over articles of several ages, all relevant and no two   *)
(* alike in url or title, under configurations with and without            *)
(* app.max_article_age_days.                                               *)
(***************************************************************************)
Url1b == <<"h","t","t","p","s",":","/","/","p","t","k",".","s","e","/","b">>

AgedArticles ==
    { Article(<<"T","e","a","t","e","r"," ","v","a","r","s","e","l">>, Url1, SourceLabel,
              Aware(Now - age), <<>>) : age \in {0, 3, 6, 8} }
    \cup { Article(<<"n","y","h","e","t">>, Url1b, SourceLabel, Aware(Now - age), <<>>) :
             age \in {0, 3, 6, 8} }

AgeConfigs ==
    { DefaultConfig, [app |-> [max_article_age_days |-> 5]],
      [app |-> [max_article_age_days |-> 1]] }

InitAges ==
    /\ scored = NoResult
    /\ articles = <<>>
    /\ stage = "collect"
    /\ dedup_in = <<>>
    /\ dedup_runs = 0
    /\ categorized_data = <<>>
    /\ config \in AgeConfigs
    /\ scrape = NoScrape
    /\ feeds = NoFeeds
    /\ site = NoSite

\* main.py:76-89: articles.extend(...) of the collectors
CollectAged ==
    /\ stage = "collect"
    /\ Len(articles) < MaxArticles
    /\ \E a \in AgedArticles : articles' = Append(articles, a)
    /\ UNCHANGED <<scored, stage, dedup_in, dedup_runs, categorized_data, config, scrape, feeds, site>>

NextAges == CollectAged \/ EnrichArticles \/ Deduplicate \/ Categorize

SpecAges == InitAges /\ [][NextAges]_vars

\* the variables of the processing part of the run
Others == <<scored, articles, stage, dedup_in, dedup_runs, categorized_data, config, feeds, site>>

InitScrape ==
    /\ scored = NoResult
    /\ articles = <<>>
    /\ stage = "collect"
    /\ dedup_in = <<>>
    /\ dedup_runs = 0
    /\ categorized_data = <<>>
    /\ config = DefaultConfig
    /\ scrape \in { StartScrape(n) : n \in 0..MaxSites }
    /\ feeds = NoFeeds
    /\ site = NoSite

NextScrape ==
    \/ (WorkerStarts /\ UNCHANGED Others)
    \/ (\E s \in Sites : ScrapeFinds(s) /\ UNCHANGED Others)
    \/ (\E s \in Sites : ScrapeReturns(s) /\ UNCHANGED Others)
    \/ (\E s \in Sites : SiteTimeout(s) /\ UNCHANGED Others)
    \/ (\E s \in Sites : AbandonedScrapeEnds(s) /\ UNCHANGED Others)
    \/ (WaitReturns /\ UNCHANGED Others)
    \/ (GlobalTimeout /\ UNCHANGED Others)
    \/ (ProcessDone /\ UNCHANGED Others)
    \/ (\E s \in Sites : CancelPending(s) /\ UNCHANGED Others)
    \/ (ScrapeWebReturns /\ UNCHANGED Others)

SpecScrape == InitScrape /\ [][NextScrape]_vars

(***************************************************************************)
(* The pool and the scrape threads of scrape_web while the main thread     *)
(* waits in concurrent.futures.wait (scraper.py:389-393), with one site    *)
(* more than the pool has workers.                                         *)
(***************************************************************************)
InitPool ==
    /\ scored = NoResult
    /\ articles = <<>>
    /\ stage = "collect"
    /\ dedup_in = <<>>
    /\ dedup_runs = 0
    /\ categorized_data = <<>>
    /\ config = DefaultConfig
    /\ scrape = StartScrape(MaxWorkers + 1)
    /\ feeds = NoFeeds
    /\ site = NoSite

NextPool ==
    \/ (WorkerStarts /\ UNCHANGED Others)
    \/ (\E s \in Sites : ScrapeFinds(s) /\ UNCHANGED Others)
    \/ (\E s \in Sites : ScrapeReturns(s) /\ UNCHANGED Others)
    \/ (\E s \in Sites : SiteTimeout(s) /\ UNCHANGED Others)
    \/ (\E s \in Sites : AbandonedScrapeEnds(s) /\ UNCHANGED Others)

SpecPool == InitPool /\ [][NextPool]_vars

(***************************************************************************)
(* Collection from feeds: a run with --source rss or --source search over  *)
(* at most MaxFeeds feeds or queries.  Feed k is named FeedNames[k].  The  *)
(* entry lists bring an entry without link, entries whose date is missing, *)
(* no date, too old for the search agent, in ISO format or without zone,   *)
(* and two entries with the same link.                                     *)
(***************************************************************************)
MaxFeeds == 2

FeedNames == << <<"D","N">>, <<"S","V","T">>, <<"T","T">> >>

FeedUrl == <<"h","t","t","p","s",":","/","/","d","n",".","s","e","/","r","s","s">>

Link1 == <<"h","t","t","p","s",":","/","/","d","n",".","s","e","/","1">>

Link2 == <<"h","t","t","p","s",":","/","/","d","n",".","s","e","/","2">>

Link3 == <<"h","t","t","p","s",":","/","/","d","n",".","s","e","/","3">>

EntryFresh ==
    Entry(<<"V","a","r","s","e","l"," ","-"," ","D","N">>, Link1,
          DateString("rfc822", Now - 1, TRUE),
          <<"<","b",">","N","y","<","/","b",">"," "," ","l","ö","n">>)

EntryNoLink ==
    Entry(<<"S","t","r","e","j","k">>, <<>>, DateString("rfc822", Now - 1, TRUE), <<>>)

EntryBadDate ==
    Entry(<<"T","e","a","t","e","r">>, Link2, DateString("garbage", 0, FALSE), <<>>)

EntryNoDate ==
    Entry(<<"K","o","n","s","e","r","t">>, Link3, DateString("none", 0, FALSE), <<>>)

EntryOld ==
    Entry(<<"G","a","m","m","a","l">>, Link2, DateString("rfc822", Now - 9, TRUE), <<>>)

EntryIso ==
    Entry(<<"A","v","t","a","l">>, Link1, DateString("iso", Now - 1, FALSE), <<>>)

EntryNoZone ==
    Entry(<<"J","o","b","b"," ","-"," "," ","T","T"," ">>, Link3,
          DateString("rfc822", Now, FALSE), <<>>)

EntryLists ==
    { <<>>,
      <<EntryFresh>>,
      <<EntryNoLink, EntryFresh>>,
      <<EntryBadDate, EntryNoDate>>,
      <<EntryOld, EntryIso>>,
      <<EntryNoZone, EntryNoLink>> }

\* what the k-th feed can be
FeedResults(k) ==
    { FeedResult(FeedNames[k], FeedUrl, o, es) : o \in {"ok", "bozo", "raises"}, es \in EntryLists }
    \cup { FeedResult(FeedNames[k], <<>>, "ok", <<>>) }

FeedLists ==
    UNION { { f \in [1..n -> UNION { FeedResults(k) : k \in 1..n }] :
                \A k \in 1..n : f[k] \in FeedResults(k) } : n \in 0..MaxFeeds }

CollectInputs ==
    { [source |-> "rss", enabled |-> FALSE, results |-> f] : f \in FeedLists }
    \cup { [source |-> "search", enabled |-> e, results |-> f] :
             e \in BOOLEAN,
             f \in { g \in FeedLists : \A k \in DOMAIN g : g[k].url # <<>> } }

InitCollect ==
    /\ scored = NoResult
    /\ articles = <<>>
    /\ stage = "collect"
    /\ dedup_in = <<>>
    /\ dedup_runs = 0
    /\ categorized_data = <<>>
    /\ config = DefaultConfig
    /\ scrape = NoScrape
    /\ feeds \in CollectInputs
    /\ site = NoSite

NextCollect == CollectRss \/ RunSearchAgent

SpecCollect == InitCollect /\ [][NextCollect]_vars

(***************************************************************************)
(* Enrichment alone: collected articles with and without a source label,   *)
(* with URLs of a host of the alias table, of another host, of a host      *)
(* without dot and without host, are enriched by one call.                 *)
(***************************************************************************)
MaxEnrichArticles == 2

DnUrl == <<"h","t","t","p","s",":","/","/","w","w","w",".","d","n",".","s","e","/","s","o","m","e","-","a","r","t","i","c","l","e">>

LocalUrl == <<"h","t","t","p","s",":","/","/","l","o","c","a","l","h","o","s","t","/","x">>

UrlLikeSource == <<"t","v","4",".","s","e">>

\* URLs of every content type, and one whose host holds a press-release token
TypedUrls ==
    { <<"h","t","t","p","s",":","/","/","p","t","k",".","s","e","/","P","r","e","s","s","/","a",".","P","D","F">>,
      <<"h","t","t","p","s",":","/","/","y","o","u","t","u","b","e",".","c","o","m","/","p","r","e","s","s">>,
      <<"h","t","t","p","s",":","/","/","p","t","k",".","s","e","/","p","r","e","s","s","m","e","d","d","e","l","a","n","d","e","/","p","o","d","d">>,
      <<"h","t","t","p","s",":","/","/","p","t","k",".","s","e","/","P","o","d","d","/","a">>,
      <<"h","t","t","p","s",":","/","/","w","w","w",".","e","x","p","r","e","s","s","e","n",".","s","e","/","a">> }

EnrichInputs ==
    { Article(<<"n","y","h","e","t">>, u, src, Aware(Now), <<>>) :
        u \in {DnUrl, Url1, LocalUrl, BadUrl, <<>>},
        src \in {<<>>, SourceLabel, UrlLikeSource} }
    \cup { Article(<<"n","y","h","e","t">>, u, SourceLabel, Aware(Now), <<>>) : u \in TypedUrls }

InitEnrich ==
    /\ scored = NoResult
    /\ articles = <<>>
    /\ stage = "collect"
    /\ dedup_in = <<>>
    /\ dedup_runs = 0
    /\ categorized_data = <<>>
    /\ config = DefaultConfig
    /\ scrape = NoScrape
    /\ feeds = NoFeeds
    /\ site = NoSite

\* main.py:76-89: one more collected article
CollectForEnrich ==
    /\ stage = "collect"
    /\ Len(articles) < MaxEnrichArticles
    /\ \E a \in EnrichInputs : articles' = Append(articles, a)
    /\ UNCHANGED <<scored, stage, dedup_in, dedup_runs, categorized_data, config, scrape, feeds, site>>

\* main.py:95: articles = enrich_articles(articles, config)
EnrichCall ==
    /\ stage = "collect"
    /\ articles' = enrich_articles(articles)
    /\ stage' = "enriched"
    /\ UNCHANGED <<scored, dedup_in, dedup_runs, categorized_data, config, scrape, feeds, site>>

NextEnrich == CollectForEnrich \/ EnrichCall

SpecEnrich == InitEnrich /\ [][NextEnrich]_vars

(***************************************************************************)
(* One run of the link loop of scrape_site over a page of at most MaxLinks *)
(* elements.                                                               *)
(***************************************************************************)
InitSite ==
    /\ scored = NoResult
    /\ articles = <<>>
    /\ stage = "collect"
    /\ dedup_in = <<>>
    /\ dedup_runs = 0
    /\ categorized_data = <<>>
    /\ config = DefaultConfig
    /\ scrape = NoScrape
    /\ feeds = NoFeeds
    /\ site = StartSite

NextSite == SiteElement \/ SiteBreakCount \/ SiteBreakTimeouts \/ SiteLoopEnds

SpecSite == InitSite /\ [][NextSite]_vars

(***************************************************************************)
(* Properties of the scorer, checked under SpecScorer                      *)
(***************************************************************************)
Scored == stage = "scored"

\* the fixed part of the reason a gate returns
ReasonLabel == scored.reason[1][1]

RejectedByGeography == ReasonLabel = "Irrelevant geografi (utlandet)"

RejectedByWorkAngle == ReasonLabel = "Saknar arbetsmarknadsvinkel (generell källa)"

RejectedByReview == ReasonLabel = "Recension/kulturartikel: "

RejectedBySector == ReasonLabel = "Irrelevant sektor: "

MatchesDomainList(domain, list) ==
    \E k \in 1..Len(list) : Contains(Lower(domain), list[k])

TextOfScored == ScoredText(scored.article)

\* C1 as stated: an article of a high-trust domain that the geography, work-angle
\* and review gates do not reject scores at least 0.1, whatever sector terms it has.
C1_TrustFloorAnySector ==
    (Scored /\ MatchesDomainList(scored.article.domain, HIGH_TRUST_DOMAINS)
        /\ ~RejectedByGeography /\ ~RejectedByWorkAngle /\ ~RejectedByReview)
    => scored.score >= 100

\* C1 amended: an article of a high-trust domain that none of the four gates
\* (geography, work-angle, review, out-of-scope sector) rejects scores at least 0.1.
C1_TrustFloor ==
    (Scored /\ MatchesDomainList(scored.article.domain, HIGH_TRUST_DOMAINS)
        /\ ~RejectedByGeography /\ ~RejectedByWorkAngle /\ ~RejectedByReview
        /\ ~RejectedBySector)
    => scored.score >= 100

\* a high-trust article without any sector or topic term has been scored: the
\* floor raised its running score
C1_Witness ==
    /\ Scored
    /\ MatchesDomainList(scored.article.domain, HIGH_TRUST_DOMAINS)
    /\ ~AnyIn(TRS_SECTORS, TextOfScored) /\ ~AnyIn(TRS_CORE_TOPICS, TextOfScored)
    /\ scored.score = 200

\* C3: a scored text with an out-of-scope sector term and no in-scope sector term
\* gets exactly 0.0, for every domain and trust tier.
C3_OutOfScopeIsZero ==
    (Scored /\ AnyIn(NON_TRS_SECTORS, TextOfScored) /\ ~AnyIn(TRS_SECTORS, TextOfScored))
    => scored.score = 0

\* the sector gate has rejected a high-trust article that carries a core topic term
C3_Witness ==
    /\ Scored
    /\ RejectedBySector
    /\ MatchesDomainList(scored.article.domain, HIGH_TRUST_DOMAINS)
    /\ AnyIn(TRS_CORE_TOPICS, TextOfScored)
    /\ scored.score = 0

HasPerformanceOrReviewTerm(text) ==
    AnyIn(PERFORMANCE_TERMS, text) \/ AnyIn(REVIEW_INDICATORS, text)

\* C9 as stated: for a high-trust domain the review gate never rejects, and an
\* article with performance/review terms, no labor-market keyword and an in-scope
\* sector term scores above 0.
C9_HighTrustReviewAlwaysPositive ==
    (Scored /\ MatchesDomainList(scored.article.domain, HIGH_TRUST_DOMAINS))
    => /\ ~RejectedByReview
       /\ (HasPerformanceOrReviewTerm(TextOfScored)
             /\ ~AnyIn(WORK_ANGLE_KEYWORDS, TextOfScored)
             /\ AnyIn(TRS_SECTORS, TextOfScored))
          => scored.score > 0

\* C9 amended: for a high-trust domain the review gate never rejects, and an
\* article with performance/review terms, no labor-market keyword and an in-scope
\* sector term scores above 0 unless the geography or the work-angle gate rejects it.
C9_HighTrustSkipsReviewGate ==
    (Scored /\ MatchesDomainList(scored.article.domain, HIGH_TRUST_DOMAINS))
    => /\ ~RejectedByReview
       /\ (HasPerformanceOrReviewTerm(TextOfScored)
             /\ ~AnyIn(WORK_ANGLE_KEYWORDS, TextOfScored)
             /\ AnyIn(TRS_SECTORS, TextOfScored)
             /\ ~RejectedByGeography /\ ~RejectedByWorkAngle)
          => scored.score > 0

\* a high-trust article that the review gate would reject on another source
\* (a performance term, no labor-market keyword) has been scored above 0
C9_Witness ==
    /\ Scored
    /\ MatchesDomainList(scored.article.domain, HIGH_TRUST_DOMAINS)
    /\ is_review_or_entertainment(TextOfScored)[1]
    /\ AnyIn(TRS_SECTORS, TextOfScored)
    /\ scored.score > 0

\* C10: from a general-news source an article without a labor-market keyword of
\* the work-angle gate scores 0.0; from any other source the work-angle gate
\* never rejects.
C10_WorkAngleGate ==
    Scored =>
        IF MatchesDomainList(ScoredSource(scored.article), WORK_ANGLE_REQUIRED_SOURCES)
        THEN ~AnyIn(work_keywords, TextOfScored) => scored.score = 0
        ELSE ~RejectedByWorkAngle

\* the work-angle gate has rejected a general-news article whose text carries
\* sector and topic-free signal only: an in-scope sector term, no keyword
C10_Witness ==
    /\ Scored
    /\ MatchesDomainList(ScoredSource(scored.article), WORK_ANGLE_REQUIRED_SOURCES)
    /\ AnyIn(TRS_SECTORS, TextOfScored)
    /\ RejectedByWorkAngle

\* a general-news article with a labor-market keyword passes the gate and scores
C10_WitnessPass ==
    /\ Scored
    /\ MatchesDomainList(ScoredSource(scored.article), WORK_ANGLE_REQUIRED_SOURCES)
    /\ AnyIn(work_keywords, TextOfScored)
    /\ scored.score > 0

\* the number of terms of the list that occur in the text
MatchCount(list, text) == Cardinality({ k \in 1..Len(list) : Contains(text, list[k]) })

NoGateRejects ==
    ~RejectedByGeography /\ ~RejectedByWorkAngle /\ ~RejectedByReview /\ ~RejectedBySector

\* C11: a general-news article that passes the geography gate, with a
\* performance term and no labor-market keyword, scores 0.0 and the reason
\* returned is the review/entertainment reason.
C11_GeneralNewsRejectedAsReview ==
    (/\ Scored
     /\ MatchesDomainList(ScoredSource(scored.article), WORK_ANGLE_REQUIRED_SOURCES)
     /\ AnyIn(PERFORMANCE_TERMS, TextOfScored)
     /\ ~AnyIn(WORK_ANGLE_KEYWORDS, TextOfScored) /\ ~AnyIn(work_keywords, TextOfScored)
     /\ ~RejectedByGeography)
    => (scored.score = 0 /\ RejectedByReview)

\* the trust modifier of the source, in tenths
TierModifier(source) ==
    IF MatchesDomainList(source, HIGH_TRUST_DOMAINS) THEN 20
    ELSE IF MatchesDomainList(source, MEDIUM_TRUST_DOMAINS) THEN 15
    ELSE IF MatchesDomainList(source, LOW_TRUST_DOMAINS) THEN 7
    ELSE 10

\* r of C12 in thousandths, after the raise to 0.1
RawScore(text, m) ==
    LET r == 300 * Min(MatchCount(TRS_SECTORS, text), 3)
             + 400 * Min(MatchCount(TRS_CORE_TOPICS, text), 3)
    IN  IF m > 15 /\ r < 100 THEN 100 ELSE r

\* C12: the score s is in [0, 1]; when no gate rejects, s = min(1.0, r * m) with
\* r = 0.3 * min(in-scope sector terms matched, 3) + 0.4 * min(core topic terms
\* matched, 3), raised to 0.1 when m > 1.5 and r < 0.1, m the trust modifier.
C12_ScoreFormula ==
    Scored =>
        /\ scored.score \in 0..1000
        /\ NoGateRejects =>
              LET m == TierModifier(ScoredSource(scored.article))
              IN  scored.score = Min(1000, (RawScore(TextOfScored, m) * m) \div 10)

\* more than three sector terms matched and the capped sum was scaled by the
\* modifier of a source that is not high-trust, below the bound 1.0
C12_Witness ==
    /\ Scored
    /\ NoGateRejects
    /\ MatchCount(TRS_SECTORS, TextOfScored) > 3
    /\ TierModifier(ScoredSource(scored.article)) = 7
    /\ scored.score = 630

(***************************************************************************)
(* Properties of deduplicate_articles, checked under SpecDedup             *)
(***************************************************************************)
\* the first call has returned: dedup_in is the collected list, articles its result
Deduplicated == stage = "deduped" /\ dedup_runs = 1

\* the call on the first call's own output has returned
DeduplicatedTwice == stage = "deduped" /\ dedup_runs = 2

ConfiguredThreshold == Get(config.app, "deduplication_threshold", DefaultDedupThreshold)

RECURSIVE IsSubsequence(_, _)
IsSubsequence(sub, seq) ==
    IF sub = <<>> THEN TRUE
    ELSE IF seq = <<>> THEN FALSE
    ELSE IF Head(sub) = Head(seq) THEN IsSubsequence(Tail(sub), Tail(seq))
    ELSE IsSubsequence(sub, Tail(seq))

Occurs(a, seq) == \E k \in 1..Len(seq) : seq[k] = a

\* C5: deduplicating the output of deduplicate_articles again, with the same
\* config and clock, returns that output unchanged (same articles, same order).
C5_DedupIdempotent == DeduplicatedTwice => articles = dedup_in

\* the second call ran on a list that holds two titles similar in one argument
\* order only, and kept both again
C5_Witness ==
    /\ DeduplicatedTwice
    /\ \E i, j \in 1..Len(articles) :
          /\ i < j
          /\ is_similar(Lower(articles[i].title), Lower(articles[j].title),
                        ConfiguredThreshold)

\* C6: the output is a subsequence of the input: no longer, made of input
\* articles, kept articles in their input order.
C6_DedupSubsequence ==
    Deduplicated => /\ Len(articles) <= Len(dedup_in)
                    /\ IsSubsequence(articles, dedup_in)

\* the middle one of three articles was dropped and the other two kept in order
C6_Witness ==
    /\ Deduplicated
    /\ Len(dedup_in) = 3
    /\ dedup_in[1] # dedup_in[3]
    /\ articles = <<dedup_in[1], dedup_in[3]>>

\* C7: the output holds at most one article of any url.
C7_DedupUniqueUrls ==
    Deduplicated =>
        \A i, j \in 1..Len(articles) : i # j => articles[i].url # articles[j].url

\* two fresh articles with one url and titles that are not similar in either
\* order went in and one came out
C7_Witness ==
    /\ Deduplicated
    /\ Len(dedup_in) = 2
    /\ dedup_in[1].url = dedup_in[2].url
    /\ dedup_in[2].published_date.day = Now /\ dedup_in[2].summary = <<>>
    /\ ~is_similar(Lower(dedup_in[1].title), Lower(dedup_in[2].title), ConfiguredThreshold)
    /\ ~is_similar(Lower(dedup_in[2].title), Lower(dedup_in[1].title), ConfiguredThreshold)
    /\ articles = <<dedup_in[1]>>

\* C8: of two input articles with distinct urls whose lowercased titles have a
\* similarity ratio above the configured threshold, at most one is in the output.
C8_SimilarTitlesDedupToOne ==
    Deduplicated =>
        \A i, j \in 1..Len(dedup_in) :
            (/\ i < j
             /\ dedup_in[i].url # dedup_in[j].url
             /\ is_similar(Lower(dedup_in[i].title), Lower(dedup_in[j].title),
                           ConfiguredThreshold))
            => ~(Occurs(dedup_in[i], articles) /\ Occurs(dedup_in[j], articles))

(***************************************************************************)
(* Properties of categorize_articles, checked under SpecCategorize         *)
(***************************************************************************)
Categorized == stage = "categorized"

\* the articles of all output categories
Placed ==
    IF Categorized
    THEN UNION { { categorized_data[c][i] : i \in 1..Len(categorized_data[c]) } :
                 c \in DOMAIN categorized_data }
    ELSE {}

\* the threshold of the article's trust tier, in thousandths
TierThreshold(article) ==
    IF MatchesDomainList(article.domain, HIGH_TRUST_DOMAINS) THEN 100
    ELSE IF MatchesDomainList(article.domain, LOW_TRUST_DOMAINS) THEN 500
    ELSE 300

\* C2: categorize_articles never places an article into an output category
\* when the score computed for it is below the threshold of its trust tier:
\* 0.1 for a high-trust domain, 0.50 for a low-trust domain that is not
\* high-trust, 0.30 otherwise.
C2_PlacedMeetsTierThreshold ==
    \A a \in Placed :
        /\ calculate_relevance(a).score >= TierThreshold(a)
        /\ a.relevance_score = calculate_relevance(a).score

\* articles of a low-trust, a high-trust and an unlisted domain were
\* categorized; one was placed and one scored below its tier's threshold
C2_Witness ==
    /\ Categorized
    /\ Placed # {}
    /\ \E i \in 1..Len(articles) :
          /\ articles[i] \notin Placed
          /\ DroppedBy(dedup_in[i], config) = "none"
          /\ MatchesDomainList(articles[i].domain, LOW_TRUST_DOMAINS)
          /\ calculate_relevance(articles[i]).score \in 300..499

(***************************************************************************)
(* Properties of the run, checked under Spec                               *)
(***************************************************************************)
\* C4: no article-level error is fatal to the batch: for any list of collected
\* articles, also one with a published_date without timezone or a malformed
\* URL, the run enrich -> deduplicate -> categorize completes instead of
\* raising and aborting.
C4_NoArticleAbortsTheRun == stage # "failed"

\* the collected list the run failed on holds a date without timezone
C4_FailedOnNaiveDate ==
    stage = "failed" =>
        \E i \in 1..Len(articles) : ~articles[i].published_date.aware

(***************************************************************************)
(* Properties of scrape_web, checked under SpecScrape and SpecPool         *)
(***************************************************************************)
ScrapeReturned == scrape.phase = "returned"

\* sites whose call of scrape_site_with_timeout ended at the per-site timeout
TimedOut == { s \in Sites : scrape.task[s] = "timed_out" }

\* the articles of site s in the result of scrape_web
Contribution(s) == { a \in scrape.all_articles : a[1] = s }

\* C13 as stated: a site whose scrape exceeded the per-site timeout contributes
\* the articles it had collected before the cutoff.
C13_TimedOutSiteContributesPartial ==
    ScrapeReturned =>
        \A s \in TimedOut \cap scrape.done : Contribution(s) = Items(s, scrape.found[s])

\* C13 amended: a site whose scrape exceeded the per-site timeout contributes
\* no article, whatever it had collected before the cutoff.
C13_TimedOutSiteContributesNothing ==
    ScrapeReturned => \A s \in TimedOut : Contribution(s) = {}

\* scrape_web returned the articles of one site while another site, timed out
\* with an article collected, is missing from the result
C13_Witness ==
    /\ ScrapeReturned
    /\ \E s \in TimedOut \cap scrape.done : scrape.found[s] > 0 /\ Contribution(s) = {}
    /\ scrape.all_articles # {}

\* C19: at every moment at most 5 executions of scrape_site are in progress.
C19_AtMostFiveScrapes == Cardinality(Scraping) <= 5

\* C20: when the global timeout fired with futures outstanding, these contribute
\* no article, and scrape_web, done with its two loops, returns without waiting
\* for an outstanding call to finish.
C20_GlobalTimeoutReturnsAtOnce ==
    (scrape.global_timeout /\ scrape.phase = "shutdown")
    => /\ \A s \in scrape.pending : Contribution(s) = {}
       /\ ENABLED ScrapeWebReturns

\* the part of C20 that holds: futures outstanding at the global timeout
\* contribute no article
C20_OutstandingContributeNothing ==
    scrape.global_timeout => \A s \in scrape.pending : Contribution(s) = {}

(***************************************************************************)
(* Properties of the category configuration and the category assignment,   *)
(* checked under SpecCategorize                                            *)
(***************************************************************************)
CategorizeCalled == stage \in {"categorized", "failed"}

CategoriesConfig == Get(config, "categories", <<>>)

Nameless == { k \in 1..Len(CategoriesConfig) : "name" \notin DOMAIN CategoriesConfig[k] }

WithoutKeywords == { k \in 1..Len(CategoriesConfig) : "keywords" \notin DOMAIN CategoriesConfig[k] }

\* C16 as stated: whenever a configured category entry lacks its name or its
\* keywords list, categorize_articles fails before producing any output.
C16_MalformedCategoryFailsFast ==
    (CategorizeCalled /\ (Nameless # {} \/ WithoutKeywords # {}))
        => (stage = "failed" /\ categorized_data = <<>>)

\* C16 amended: categorize_articles fails, before producing any output and
\* before touching an article, exactly when a configured category entry lacks
\* its name; an entry that lacks its keywords list is accepted as a category
\* that no keyword selects, and its name is a key of the output.
C16_NamelessCategoryFailsFast ==
    CategorizeCalled =>
        IF Nameless # {}
        THEN stage = "failed" /\ categorized_data = <<>> /\ articles = dedup_in
        ELSE /\ stage = "categorized"
             /\ \A k \in 1..Len(CategoriesConfig) :
                    CategoriesConfig[k].name \in DOMAIN categorized_data

C16_Witness ==
    /\ stage = "failed"
    /\ dedup_in # <<>>
    /\ Nameless = {Len(CategoriesConfig)}
    /\ Len(CategoriesConfig) > 1
    /\ categorized_data = <<>>

\* the articles that categorize_articles included: it gave them a category
Included == { i \in DOMAIN articles : Categorized /\ articles[i].category # NoCategory }

TextLower(article) == Lower(article.title \o SP \o article.summary)

\* the configured categories one of whose keywords occurs in the text
KeywordCategories(article) ==
    { k \in 1..Len(CategoriesConfig) :
        \E n \in 1..Len(Get(CategoriesConfig[k], "keywords", <<>>)) :
            Contains(TextLower(article), Lower(CategoriesConfig[k].keywords[n])) }

\* the concept clusters one of whose terms occurs in the text
TermClusters(article) ==
    { k \in 1..Len(CONCEPT_CLUSTERS) :
        \E n \in 1..Len(CONCEPT_CLUSTERS[k][2]) :
            Contains(TextLower(article), CONCEPT_CLUSTERS[k][2][n]) }

\* those of them whose name is the name of an output category
OutputClusters(article) ==
    { k \in TermClusters(article) : CONCEPT_CLUSTERS[k][1] \in DOMAIN categorized_data }

\* C18 as stated: an included article gets the first configured category with
\* a keyword in its text, else the category of the first concept cluster with
\* a term in its text, else the catch-all category.
C18_FirstKeywordThenFirstCluster ==
    \A i \in Included :
        articles[i].category =
            IF KeywordCategories(articles[i]) # {}
            THEN CategoriesConfig[SetMin(KeywordCategories(articles[i]))].name
            ELSE IF TermClusters(articles[i]) # {}
            THEN CONCEPT_CLUSTERS[SetMin(TermClusters(articles[i]))][1]
            ELSE CatchAll

\* C18 amended: an included article gets the first configured category with a
\* keyword in its text; else the first concept cluster, in the order of
\* CONCEPT_CLUSTERS, that has a term in its text and whose name is the name of
\* an output category; else the catch-all category.  The category it gets is
\* an output category.
C18_FirstKeywordThenFirstOutputCluster ==
    \A i \in Included :
        /\ articles[i].category =
              IF KeywordCategories(articles[i]) # {}
              THEN CategoriesConfig[SetMin(KeywordCategories(articles[i]))].name
              ELSE IF OutputClusters(articles[i]) # {}
              THEN CONCEPT_CLUSTERS[SetMin(OutputClusters(articles[i]))][1]
              ELSE CatchAll
        /\ articles[i].category \in DOMAIN categorized_data

\* one call assigned by keyword where two categories match, by a later
\* cluster where the first cluster with a term is not configured, or to the
\* catch-all although a cluster term occurs
C18_Witness ==
    /\ Categorized
    /\ \E i \in Included :
          /\ KeywordCategories(articles[i]) = {}
          /\ TermClusters(articles[i]) # {}
          /\ SetMin(TermClusters(articles[i])) \notin OutputClusters(articles[i])
          /\ OutputClusters(articles[i]) # {}
          /\ articles[i].category = CONCEPT_CLUSTERS[SetMin(OutputClusters(articles[i]))][1]
    /\ \E i \in Included :
          /\ Cardinality(KeywordCategories(articles[i])) > 1
          /\ articles[i].category = CategoriesConfig[SetMin(KeywordCategories(articles[i]))].name

\* an included article with a cluster term in its text is in the catch-all
C18_WitnessCatchAll ==
    /\ Categorized
    /\ \E i \in Included :
          /\ TermClusters(articles[i]) # {}
          /\ articles[i].category = CatchAll

(***************************************************************************)
(* Properties of enrich_article, checked under SpecEnrich                  *)
(***************************************************************************)
Enriched == stage = "enriched"

\* the source label is not empty and has no dot
CleanSource(article) == article.source # <<>> /\ ~Contains(article.source, <<".">>)

Labels(domain) == Split(domain, ".")

\* the label before the last one, or the only label
SecondLevelLabel(domain) ==
    IF Len(Labels(domain)) >= 2 THEN Labels(domain)[Len(Labels(domain)) - 1]
    ELSE Labels(domain)[1]

Aliases(label) == { k \in 1..Len(ORG_MAPPINGS) : ORG_MAPPINGS[k][1] = label }

DAGENS_NYHETER == <<"D","a","g","e","n","s"," ","N","y","h","e","t","e","r">>

DN_SE == <<"d","n",".","s","e">>

\* C17 as stated: organization is the source label when that is non-empty and
\* not URL-like; otherwise the alias of the domain's second-level label when
\* the table has one, else the capitalized label; the unknown marker when
\* there is no domain.
C17_OrganizationFromSourceAliasOrLabel ==
    Enriched =>
        \A i \in DOMAIN articles :
            LET a == articles[i]
                label == SecondLevelLabel(a.domain)
            IN  a.organization =
                    IF CleanSource(a) THEN a.source
                    ELSE IF a.domain = <<>> THEN UNKNOWN_ORG
                    ELSE IF Aliases(label) # {}
                    THEN ORG_MAPPINGS[CHOOSE k \in Aliases(label) : TRUE][2]
                    ELSE Capitalize(label)

\* C17 amended: as stated for a domain of two labels or more; a domain
\* without dot is taken over unchanged, neither looked up nor capitalized.
\* The URL https://www.dn.se/some-article gives the domain dn.se and, without
\* a clean source label, the organization Dagens Nyheter.
C17_OrganizationOfDottedDomain ==
    Enriched =>
        \A i \in DOMAIN articles :
            LET a == articles[i]
                label == SecondLevelLabel(a.domain)
            IN  /\ a.organization =
                      IF CleanSource(a) THEN a.source
                      ELSE IF a.domain = <<>> THEN UNKNOWN_ORG
                      ELSE IF Len(Labels(a.domain)) < 2 THEN a.domain
                      ELSE IF Aliases(label) # {}
                      THEN ORG_MAPPINGS[CHOOSE k \in Aliases(label) : TRUE][2]
                      ELSE Capitalize(label)
                /\ a.url = DnUrl => a.domain = DN_SE
                /\ (a.url = DnUrl /\ ~CleanSource(a)) => a.organization = DAGENS_NYHETER

C17_Witness ==
    /\ Enriched
    /\ \E i \in DOMAIN articles :
          /\ articles[i].url = DnUrl
          /\ articles[i].source = <<>>
          /\ articles[i].domain = DN_SE
          /\ articles[i].organization = DAGENS_NYHETER
    /\ \E i \in DOMAIN articles :
          /\ articles[i].url = LocalUrl
          /\ articles[i].source = UrlLikeSource
          /\ articles[i].organization = articles[i].domain

(***************************************************************************)
(* Properties of the feed collectors, checked under SpecCollect            *)
(***************************************************************************)
Collected == stage = "collected"

RssCollected == Collected /\ feeds.source = "rss"

SearchCollected == Collected /\ feeds.source = "search" /\ feeds.enabled

\* the collected articles that come from the k-th feed or query
FeedContribution(k) ==
    IF feeds.source = "rss"
    THEN SelectSeq(articles, LAMBDA a : a.source = feeds.results[k].name)
    ELSE SelectSeq(articles, LAMBDA a : a.found_via = feeds.results[k].name)

\* the entries of the k-th feed that collect_rss reads
EntriesRead(k) == 1..Min(Len(feeds.results[k].entries), MaxPerFeed)

LinkedEntries(k) == { i \in EntriesRead(k) : feeds.results[k].entries[i].link # <<>> }

\* the articles of the k-th feed made of an entry
ArticlesOfEntry(k, entry) ==
    { i \in DOMAIN FeedContribution(k) : FeedContribution(k)[i].title = entry.title }

\* C14 as stated: a source whose fetch fails or whose feed is reported as a
\* parse error contributes no article to the collection.
C14_FailedSourceContributesNothing ==
    Collected =>
        \A k \in DOMAIN feeds.results :
            feeds.results[k].outcome \in {"bozo", "raises"} => FeedContribution(k) = <<>>

\* C14 amended: a feed whose fetch raises contributes no article, and so does
\* a search query whose feed is reported as a parse error; an RSS feed reported
\* as a parse error contributes an article for every entry with a link among
\* its first ten, like a feed without error; the feeds after it are collected
\* all the same.
C14_OnlyRaisingFeedContributesNothing ==
    Collected =>
        \A k \in DOMAIN feeds.results :
            LET feed == feeds.results[k]
            IN  /\ feed.outcome = "raises" => FeedContribution(k) = <<>>
                /\ (feeds.source = "search" /\ feed.outcome = "bozo") => FeedContribution(k) = <<>>
                /\ (feeds.source = "rss" /\ feed.outcome # "raises" /\ feed.url # <<>>)
                      => Len(FeedContribution(k)) = Cardinality(LinkedEntries(k))

C14_Witness ==
    /\ RssCollected
    /\ \E k, m \in DOMAIN feeds.results :
          /\ k < m
          /\ feeds.results[k].outcome = "raises"
          /\ feeds.results[k].entries # <<>>
          /\ FeedContribution(k) = <<>>
          /\ feeds.results[m].outcome = "bozo"
          /\ FeedContribution(m) # <<>>

\* an entry without link, or with a publication date that is no date
Malformed(entry) == entry.link = <<>> \/ entry.published.fmt = "garbage"

FirstWithLink(k, i) ==
    \A m \in 1..k :
        \A n \in DOMAIN feeds.results[m].entries :
            (feeds.results[m].outcome = "ok" /\ (m < k \/ n < i))
                => feeds.results[m].entries[n].link # feeds.results[k].entries[i].link

Fetches == SelectSeq(site.log, LAMBDA o : o # "not_candidate")

\* the last n fetches all ended in a timeout or connection error
LastFetchesTimedOut(n) ==
    /\ Len(Fetches) >= n
    /\ \A k \in (Len(Fetches) - n + 1)..Len(Fetches) : Fetches[k] = "timeout"

\* C21: the site is given up only after three consecutive fetches that ended
\* in a timeout or connection error; three such failures that are not
\* consecutive never abort the site.
C21_AbortOnlyAfterConsecutiveFailures ==
    site.reason = "timeouts" => LastFetchesTimedOut(MAX_TIMEOUTS)

\* the other half of C21: once three consecutive fetches have failed so, no
\* further link is fetched
C21_NoFetchAfterThreeConsecutive ==
    \A k \in 1..(Len(Fetches) - MAX_TIMEOUTS) :
        ~(\A m \in k..(k + MAX_TIMEOUTS - 1) : Fetches[m] = "timeout")

(***************************************************************************)
(* Properties of what the collectors hand to the pipeline, checked under   *)
(* SpecCollect.  enrich_articles (main.py:95) neither drops an article nor *)
(* changes its url, so the list collected is the list deduplicate_articles *)
(* (main.py:98) is given.                                                  *)
(***************************************************************************)
\* C22: every article that enters deduplicate_articles has a non-empty url,
\* whichever collector produced it.
C22_UrlNonEmptyBeforeDedup ==
    Collected => \A i \in DOMAIN articles : articles[i].url # <<>>

\* the part of C22 that holds: collect_rss never hands over an empty url
C22_RssUrlNonEmpty ==
    RssCollected => \A i \in DOMAIN articles : articles[i].url # <<>>

(***************************************************************************)
(* Properties of the categorizer's filters and lists, checked under        *)
(* SpecLists                                                               *)
(***************************************************************************)
ListsMade == stage = "categorized"

ListLimit ==
    Get(Get(config, "app", <<>>), "max_articles_per_category", DefaultMaxPerCategory)

\* the positions of the call's articles that were assigned to the category
AssignedTo(name) == { i \in DOMAIN articles : articles[i].category = name }

Day(article) == article.published_date.day

\* C23: after categorize_articles every category list is sorted by
\* published_date, newest first, holds at most max_articles_per_category
\* (default 10) entries, and the entries kept are the most recent of the
\* articles assigned to the category.
C23_ListsSortedAndCut ==
    ListsMade =>
        \A name \in DOMAIN categorized_data :
            LET list == categorized_data[name]
            IN  /\ \A k \in 1..(Len(list) - 1) : Day(list[k]) >= Day(list[k + 1])
                /\ Len(list) = Min(ListLimit, Cardinality(AssignedTo(name)))
                /\ \A k \in DOMAIN list : \E i \in AssignedTo(name) : articles[i] = list[k]
                /\ \A i \in AssignedTo(name) :
                       \/ \E k \in DOMAIN list : list[k] = articles[i]
                       \/ \A k \in DOMAIN list : Day(list[k]) >= Day(articles[i])

\* an older article came first, a newer one second, both were assigned to the
\* same category and its list of one entry holds the newer
C23_Witness ==
    /\ ListsMade
    /\ ListLimit = 1
    /\ Len(articles) = 2
    /\ articles[1].category = articles[2].category
    /\ articles[1].category \in DOMAIN categorized_data
    /\ Day(articles[1]) < Day(articles[2])
    /\ categorized_data[articles[1].category] = <<articles[2]>>

BlockedTitles == Get(Get(config, "blocklist", <<>>), "titles", <<>>)

BlockedUrls == Get(Get(config, "blocklist", <<>>), "urls", <<>>)

CategorizerWindow == Get(Get(config, "app", <<>>), "max_article_age_days", DefaultCatMaxAgeDays)

MinContentLength == Get(Get(config, "app", <<>>), "min_content_length", DefaultMinContentLength)

TitleBlocked(article) ==
    \E k \in DOMAIN BlockedTitles : Contains(Lower(article.title), Lower(BlockedTitles[k]))

UrlBlocked(article) ==
    \E k \in DOMAIN BlockedUrls : Contains(Lower(article.url), Lower(BlockedUrls[k]))

TooOld(article) == Day(article) < Now - CategorizerWindow

Thin(article) == article.body_text # <<>> /\ Len(article.body_text) < MinContentLength

\* the articles of all category lists
Listed ==
    UNION { { categorized_data[name][k] : k \in DOMAIN categorized_data[name] } :
              name \in DOMAIN categorized_data }

\* the article passes the relevance decision of categorizer.py:387-395
Relevant(article) ==
    should_include(article, calculate_relevance(article).score, article.domain)

\* C24: no listed article has a blocked substring in its lowercased title or
\* url, a date before now minus max_article_age_days, or a non-empty body
\* shorter than min_content_length; and an article with an empty body that
\* passes the other checks is not dropped.
C24_NoBlockedOldOrThinArticleListed ==
    ListsMade =>
        /\ \A a \in Listed :
               ~TitleBlocked(a) /\ ~UrlBlocked(a) /\ ~TooOld(a) /\ ~Thin(a)
        /\ \A i \in DOMAIN dedup_in :
               LET a == dedup_in[i]
               IN  (/\ a.body_text = <<>>
                    /\ ~TitleBlocked(a) /\ ~UrlBlocked(a) /\ ~TooOld(a)
                    /\ Relevant(a))
                   => articles[i].category # NoCategory

\* of two articles with the same title and date, the one with a body shorter
\* than the minimum was dropped and the one without a body is listed
C24_Witness ==
    /\ ListsMade
    /\ \E i, j \in DOMAIN dedup_in :
           /\ dedup_in[i].title = dedup_in[j].title
           /\ Day(dedup_in[i]) = Day(dedup_in[j])
           /\ Thin(dedup_in[i])
           /\ articles[i].category = NoCategory
           /\ dedup_in[j].body_text = <<>>
           /\ articles[j] \in Listed

\* articles with a blocked title, a blocked url and a date outside the window
\* entered the call and none of them is listed
C24_WitnessBlockedOrOld ==
    /\ ListsMade
    /\ \E i \in DOMAIN dedup_in :
           /\ TitleBlocked(dedup_in[i]) \/ UrlBlocked(dedup_in[i]) \/ TooOld(dedup_in[i])
           /\ Relevant(dedup_in[i])
           /\ articles[i].category = NoCategory

(***************************************************************************)
(* Properties of the two age filters of a run, checked under SpecAges      *)
(***************************************************************************)
Age(article) == Now - Day(article)

\* the positions of the articles handed to deduplicate_articles that have no
\* duplicate among them
Single == { i \in DOMAIN dedup_in :
              \A j \in DOMAIN dedup_in \ {i} : dedup_in[j].url # dedup_in[i].url }

SurvivedDedup(i) == \E k \in DOMAIN articles : articles[k].url = dedup_in[i].url

\* deduplicate_articles dropped exactly the articles older than 7 days
DedupAppliesDefaultWindow ==
    \A i \in Single : (Age(dedup_in[i]) <= DefaultDedupMaxAgeDays) <=> SurvivedDedup(i)

\* categorize_articles listed exactly the articles it was given that are not
\* older than 2 days
CategorizerAppliesDefaultWindow ==
    \A k \in DOMAIN articles :
        (Age(articles[k]) <= DefaultCatMaxAgeDays) <=> (articles[k] \in Listed)

\* C25: each of the two age filters has a window of its own (defaults 7 and
\* 2 days): an age setting of the configuration moves the window of one
\* stage and leaves the other stage at its own, so in every run at least
\* one of the two stages applies its default.
C25_AgeWindowsIndependent ==
    (ListsMade /\ dedup_runs = 1) =>
        DedupAppliesDefaultWindow \/ CategorizerAppliesDefaultWindow

\* what the code does: both stages apply app.max_article_age_days when it
\* is set
C25_OneSettingMovesBothWindows ==
    (ListsMade /\ dedup_runs = 1 /\ "max_article_age_days" \in DOMAIN config.app) =>
        /\ \A i \in Single :
               (Age(dedup_in[i]) <= config.app.max_article_age_days) <=> SurvivedDedup(i)
        /\ \A k \in DOMAIN articles :
               (Age(articles[k]) <= config.app.max_article_age_days)
                   <=> (articles[k] \in Listed)

\* the positions of the articles the call dropped
Dropped ==
    { i \in DOMAIN dedup_in :
        LET a == dedup_in[i]
        IN  TitleBlocked(a) \/ UrlBlocked(a) \/ TooOld(a) \/ Thin(a) \/ ~Relevant(a) }

\* C26 as stated: categorize_articles leaves every article it drops as it
\* was on entry, all fields alike.
C26_DroppedArticlesUnchanged ==
    ListsMade => \A i \in Dropped : articles[i] = dedup_in[i]

\* C26 amended: a dropped article keeps its category, its relevance_score
\* and every other field but published_date; a published_date without
\* tzinfo is replaced by the timezone-aware local time unless a blocklist
\* dropped the article before the date check.
C26_DroppedArticlesKeepAllButNaiveDate ==
    ListsMade =>
        \A i \in Dropped :
            LET a == dedup_in[i]
            IN  articles[i] =
                    IF TitleBlocked(a) \/ UrlBlocked(a) THEN a
                    ELSE [a EXCEPT !.published_date = [day |-> Day(a), aware |-> TRUE]]

\* an article dated without a timezone was dropped for its age, its date now
\* carries one, and an article with a blocked url kept its date as it was
C26_Witness ==
    /\ ListsMade
    /\ \E i, j \in Dropped :
           /\ ~dedup_in[i].published_date.aware
           /\ TooOld(dedup_in[i])
           /\ articles[i].published_date.aware
           /\ articles[i].category = NoCategory
           /\ ~dedup_in[j].published_date.aware
           /\ UrlBlocked(dedup_in[j])
           /\ articles[j] = dedup_in[j]

\* the path of the url: what follows the host
UrlPath(url) ==
    LET i == Find(url, <<":","/","/">>, 0)
        rest == IF i < 0 THEN url ELSE SubSeq(url, i + 4, Len(url))
        j == Find(rest, <<"/">>, 0)
    IN  IF i < 0 THEN url
        ELSE IF j < 0 THEN <<>>
        ELSE SubSeq(rest, j + 1, Len(rest))

\* C27: content_type is the first match of: the url ends with .pdf -> pdf;
\* it names a video-hosting domain -> video; its path holds a press-release
\* token -> press_release; its path holds a podcast token -> podcast;
\* otherwise article.
C27_ContentTypeByFirstMatch ==
    Enriched =>
        \A i \in DOMAIN articles :
            LET url_lower == Lower(articles[i].url)
                path_lower == Lower(UrlPath(articles[i].url))
            IN  articles[i].content_type =
                    IF EndsWith(url_lower, PDF_SUFFIX) THEN "pdf"
                    ELSE IF AnyIn(VIDEO_MARKERS, url_lower) THEN "video"
                    ELSE IF AnyIn(PRESS_MARKERS, path_lower) THEN "press_release"
                    ELSE IF AnyIn(PODCAST_MARKERS, path_lower) THEN "podcast"
                    ELSE "article"

\* what the code does: the press-release and podcast tokens are looked for in
\* the whole url, host included
C27_ContentTypeByTokenAnywhere ==
    Enriched =>
        \A i \in DOMAIN articles :
            LET url_lower == Lower(articles[i].url)
            IN  articles[i].content_type =
                    IF EndsWith(url_lower, PDF_SUFFIX) THEN "pdf"
                    ELSE IF AnyIn(VIDEO_MARKERS, url_lower) THEN "video"
                    ELSE IF Contains(url_lower, <<"p","r","e","s","s">>) THEN "press_release"
                    ELSE IF Contains(url_lower, <<"p","o","d","d">>)
                            \/ Contains(url_lower, <<"p","o","d","c","a","s","t">>)
                    THEN "podcast"
                    ELSE "article"

(***************************************************************************)
(* The keyword lists of the two gates, checked under SpecScorer            *)
(***************************************************************************)
\* C28: a text that holds a keyword of the work-angle gate is also taken by
\* the review gate to hold a labor-market keyword, so a general-news article
\* that passes the work-angle gate is never rejected by the review gate.
C28_GatesAgreeOnKeywords ==
    (/\ Scored
     /\ MatchesDomainList(ScoredSource(scored.article), WORK_ANGLE_REQUIRED_SOURCES)
     /\ AnyIn(work_keywords, TextOfScored))
    => (AnyIn(WORK_ANGLE_KEYWORDS, TextOfScored) /\ ~RejectedByReview)

\* the part of C28 that holds: with a keyword of the review gate's own list
\* in the text, the review gate rejects nothing
C28_ReviewGateSparesItsKeywords ==
    (Scored /\ AnyIn(WORK_ANGLE_KEYWORDS, TextOfScored)) => ~RejectedByReview

(***************************************************************************)
(* The category lists as a partition of the included articles, checked     *)
(* under SpecCategorize                                                    *)
(***************************************************************************)
\* the articles handed to the call were distinct
DistinctInput ==
    \A i, j \in DOMAIN dedup_in : i # j => dedup_in[i] # dedup_in[j]

\* the entries <<name, k>> of all category lists that hold the article
EntriesOf(article) ==
    { e \in UNION { { <<name, k>> : k \in DOMAIN categorized_data[name] } :
                      name \in DOMAIN categorized_data } :
        categorized_data[e[1]][e[2]] = article }

\* C29: after categorize_articles on distinct articles every article is in
\* at most one category list and at most once in it, the category field of
\* a listed article is the name of its list, and every listed article is
\* one of the articles of the input.
C29_ListsPartitionIncludedArticles ==
    (Categorized /\ DistinctInput) =>
        /\ \A name \in DOMAIN categorized_data :
               \A k \in DOMAIN categorized_data[name] :
                   /\ categorized_data[name][k].category = name
                   /\ \E i \in DOMAIN articles : articles[i] = categorized_data[name][k]
        /\ \A i \in DOMAIN articles :
               Cardinality(EntriesOf(articles[i]))
                   <= Cardinality({ j \in DOMAIN articles : articles[j] = articles[i] })

\* two distinct articles were included and are held by two different lists
C29_Witness ==
    /\ Categorized
    /\ DistinctInput
    /\ Len(articles) = 2
    /\ \E n1, n2 \in DOMAIN categorized_data :
           /\ n1 # n2
           /\ categorized_data[n1] = <<articles[1]>>
           /\ categorized_data[n2] = <<articles[2]>>

(***************************************************************************)
(* The reasons for which deduplicate_articles drops, checked under         *)
(* SpecDedup                                                               *)
(***************************************************************************)
DedupWindow == Get(config.app, "max_article_age_days", DefaultDedupMaxAgeDays)

OldAt(i) == Day(dedup_in[i]) < Now - DedupWindow

AdAt(i) == AnyIn(AD_BLOCKLIST, Lower(dedup_in[i].title \o SP \o dedup_in[i].summary))

\* the article at position i of the input is in the output; of equal
\* articles only the first can be
KeptAt(i) ==
    /\ Occurs(dedup_in[i], articles)
    /\ \A j \in 1..(i - 1) : dedup_in[j] # dedup_in[i]

\* an article earlier in the input and kept has the same url, or a title the
\* title at i is similar to
EarlierDuplicateOf(i) ==
    \E j \in 1..(i - 1) :
        /\ KeptAt(j)
        /\ \/ dedup_in[j].url = dedup_in[i].url
           \/ is_similar(Lower(dedup_in[i].title), Lower(dedup_in[j].title),
                         ConfiguredThreshold)

\* C30: deduplicate_articles drops an article only when it is older than the
\* cutoff, its title and summary hold an advertising marker, or an earlier
\* article of the input that is kept has the same url or a similar title; of
\* a group of duplicates the earliest surviving one is kept.
C30_DropsOnlyForAgeAdOrEarlierDuplicate ==
    Deduplicated =>
        \A i \in DOMAIN dedup_in :
            ~KeptAt(i) => (OldAt(i) \/ AdAt(i) \/ EarlierDuplicateOf(i))

\* the first article was kept, the second has another url and was dropped
\* for its title, the third is fresh, no advertisement and was dropped for
\* its url
C30_Witness ==
    /\ Deduplicated
    /\ Len(dedup_in) = 3
    /\ articles = <<dedup_in[1]>>
    /\ dedup_in[2].url # dedup_in[1].url
    /\ ~OldAt(2) /\ ~AdAt(2) /\ ~OldAt(3) /\ ~AdAt(3)
    /\ dedup_in[3].url = dedup_in[1].url
    /\ ~is_similar(Lower(dedup_in[3].title), Lower(dedup_in[1].title), ConfiguredThreshold)

====
